---- MODULE Spec2Model ----
(***************************************************************************)
(* Model of the build/test driver of seL4-platforms/builds.py:             *)
(* run_builds iterating over a batch of builds, and run_build_script       *)
(* running one build's script with retries, trailer ("final") steps and    *)
(* the jUnit summary; the exit code of a driver's main; build_for_variant  *)
(* resolving one variant of a base build; load_builds with variants and    *)
(* filtered producing the list of builds.                                  *)
(***************************************************************************)
EXTENDS Integers, Sequences, FiniteSets, TLC

\* ---- bounds of the model ------------------------------------------------
MaxBuilds == 2      \* builds in the batch handed to run_builds
MaxScript == 2      \* steps in the script a driver passes
MaxFinal == 2       \* steps in the final_script a driver passes
MaxCount == 1       \* largest failures / errors counter of a jUnit report

\* ---- return codes for a test run or single step of a run ----------------
FAILURE == 0
SUCCESS == 1
SKIP == 2
REPEAT == 3

Outcomes == {FAILURE, SUCCESS, SKIP, REPEAT}

\* The values run_cmd_and_params(line) can return to run_build_script: a
\* command gives SUCCESS or FAILURE by its exit code, a function step (as
\* the docstring and Run.hw_run have it) returns what the function returns;
\* a step of a driver's script that is only known by its position can be
\* either and returns any of the return codes. ['exit', '1'] has the exit
\* code 1 where a program of that name exists.
run_cmd_and_params(line) ==
    IF "fun" \in DOMAIN line
       THEN (IF line.fun = "lambda r: SKIP" THEN {SKIP}
             ELSE {REPEAT, SUCCESS})
    ELSE IF "argv" \in DOMAIN line
       THEN (IF line.argv[1] = "exit" THEN {FAILURE} ELSE {SUCCESS, FAILURE})
    ELSE Outcomes

\* subprocess.Popen(cmd_and_params) without a shell: exit is a builtin of
\* the shell, and Popen raises FileNotFoundError where no program of that
\* name is installed
may_raise(line) == "argv" \in DOMAIN line /\ line.argv[1] = "exit"

InitialTries_m == 1 + 1

\* tries_left = 3
InitialTries == 3

\* None: no value returned yet
NoValue == -1

VARIABLES
    builds,           \* run_builds: the batch, a list of build names
    bi,               \* run_builds: position of the for loop in builds
    results,          \* run_builds: results dict, outcome -> list of names
    exit_code,        \* run_builds: value returned, NoValue before
    calls,            \* names for which run_fun has been invoked, in order
    ret,              \* value returned by the last run_fun call
    pc,               \* position in run_builds / run_build_script
    script,           \* run_build_script: local variable script
    final_script,     \* run_build_script: parameter final_script
    junit,            \* run_build_script: parameter junit
    result,           \* run_build_script: local variable result
    tries_left,       \* run_build_script: local variable tries_left
    si,               \* index of the next line of script
    fi,               \* index of the next line of final_script
    attempts,         \* iterations of the while loop started in this call
    attempt_results,  \* result at the end of each finished iteration
    executed,         \* lines echoed and run in this attempt, with outcome
    report,           \* jUnit report read in this attempt, NoReport if none
    dir_exists,       \* whether manifest_dir/build exists
    dir_files,        \* files in manifest_dir/build
    driver,           \* main: the driver script that is running
    phase,            \* main: the phase selected on the command line
    process_exit,     \* main: value handed to sys.exit, NoValue before
    heap,             \* the Build objects, by object identity
    base,             \* build_for_variant: the base_build argument
    base0,            \* the attributes of base_build before the first call
    variant,          \* build_for_variant: the variant argument
    filter_fun,       \* build_for_variant: the filter_fun argument
    outs,             \* what each call of build_for_variant returned
    yml,              \* load_builds: the configuration (builds.yml)
    environ,          \* os.environ: the INPUT_<KEY> variables that are set
    lpc,              \* position in load_builds
    all_variants,     \* load_builds: local variable all_variants
    base_builds,      \* load_builds: local variable base_builds
    lb,               \* load_builds: position of `for b in base_builds`
    lv,               \* load_builds: position of `for v in all_variants`
    loaded,           \* load_builds: local variable builds
    produced,         \* what build_for_variant returned to load_builds
    f_build,          \* filtered: the build argument
    f_filters,        \* filtered: the build_filters argument
    filter_out,       \* what filtered returned, NoValue before
    log,              \* repeat_on_boot_failure: the log argument
    boot_ret,         \* what repeat_on_boot_failure returned, NoValue before
    job_env,          \* os.environ of each CI job
    hw,               \* each CI job's hardware run: its position and locals
    sem,              \* the lock service: holder and age of each machine's lock
    cleanup           \* each CI job's --post phase: its position and locals

vars == <<builds, bi, results, exit_code, calls, ret, pc, script,
          final_script, junit, result, tries_left, si, fi, attempts,
          attempt_results, executed, report, dir_exists, dir_files,
          driver, phase, process_exit,
          heap, base, base0, variant, filter_fun, outs,
          yml, environ, lpc, all_variants, base_builds, lb, lv, loaded,
          produced,
          f_build, f_filters, filter_out,
          log, boot_ret,
          job_env, hw, sem, cleanup>>

main_vars == <<driver, phase, process_exit>>
resolve_vars == <<heap, base, base0, variant, filter_fun, outs>>

load_vars == <<yml, environ, lpc, all_variants, base_builds, lb, lv, loaded,
               produced>>

filter_vars == <<f_build, f_filters, filter_out>>

boot_vars == <<log, boot_ret>>

\* the variables of the calls observed on their own
job_vars == <<job_env, hw, sem, cleanup>>

\* the variables of the calls observed on their own
more_vars == <<filter_vars, boot_vars, job_vars>>

\* the variables outside run_builds and run_build_script
ext_vars == <<main_vars, resolve_vars, load_vars, more_vars>>

rb_vars == <<builds, bi, results, exit_code, calls, ret>>
call_vars == <<script, final_script, junit>>

\* ---- script lines -------------------------------------------------------
Line(src, n) == [src |-> src, n |-> n]

\* sanitise_junit = ["python3", ".../extract_results.py", ...]
sanitise_junit == Line("sanitise_junit", 0)

\* a script of n lines as a driver builds it
driver_script(src, n) == [k \in 1..n |-> Line(src, k)]

\* ---- jUnit reports ------------------------------------------------------
NoReport == [kind |-> "none", failures |-> 0, errors |-> 0]

Reports ==
    {[kind |-> "IOError", failures |-> 0, errors |-> 0],
     [kind |-> "ParseError", failures |-> 0, errors |-> 0]}
    \cup {[kind |-> "xml", failures |-> f, errors |-> e] :
             f \in 0..MaxCount, e \in 0..MaxCount}

summarise_junit_m(xml) ==
    IF xml.failures = 0 THEN SUCCESS ELSE FAILURE

\* success = xml.failures == 0 and xml.errors == 0
summarise_junit(xml) ==
    IF xml.failures = 0 /\ xml.errors = 0 THEN SUCCESS ELSE FAILURE

\* try: summarise_junit(junit_file) except IOError / except: result = FAILURE
junit_result(rep) ==
    IF rep.kind = "xml" THEN summarise_junit(rep) ELSE FAILURE

\* ---- pieces of run_build_script ----------------------------------------
script_break_m(r) == r = FAILURE

\* if result != SUCCESS: break
script_break(r) == r # SUCCESS

run_final_m(res) == res = SUCCESS

\* if result != SKIP: for line in final_script
run_final(res) == res # SKIP

final_result_m(res, r) ==
    IF r = FAILURE THEN FAILURE
    ELSE IF r = REPEAT THEN REPEAT
    ELSE res

final_result_m2(res, r) ==
    IF r = FAILURE THEN (IF res # REPEAT THEN FAILURE ELSE REPEAT)
    ELSE IF r = REPEAT THEN REPEAT
    ELSE r

\* the effect of a final script line's return r on result
final_result(res, r) ==
    IF r = FAILURE THEN (IF res # REPEAT THEN FAILURE ELSE REPEAT)
    ELSE IF r = REPEAT THEN REPEAT
    ELSE res

final_break_m(r) == r # SUCCESS

\* a FAILURE of a final script line stops the final script
final_break(r) == r = FAILURE

tries_exhausted_m(res, tries) == res

\* elif result == REPEAT and tries_left == 0: result = FAILURE
tries_exhausted(res, tries) ==
    IF res = REPEAT /\ tries = 0 THEN FAILURE ELSE res

loop_break_m(res) == res \notin {REPEAT, FAILURE}

\* if result != REPEAT: break
loop_break(res) == res # REPEAT

fresh_build_dir_m(exists, files) == files

\* shutil.rmtree(build_dir) ignoring IOError, then os.mkdir(build_dir):
\* the files of the build directory afterwards
fresh_build_dir(exists, files) == {}

\* a file left in the build directory by a step
File(line, call, attempt) == [line |-> line, call |-> call, attempt |-> attempt]

StaleFiles == {File(Line("stale", 0), 0, 0)}

\* ---- initial state ------------------------------------------------------

\* no driver main is observed: run_builds is entered directly
IdleMain ==
    /\ driver = "none"
    /\ phase = "none"
    /\ process_exit = NoValue

\* no build is being resolved
IdleResolve ==
    /\ heap = <<>>
    /\ base = 0
    /\ base0 = 0
    /\ variant = <<>>
    /\ filter_fun = "none"
    /\ outs = <<>>

\* load_builds is not running
IdleLoad ==
    /\ yml = <<>>
    /\ environ = <<>>
    /\ lpc = "idle"
    /\ all_variants = <<>>
    /\ base_builds = <<>>
    /\ lb = 1
    /\ lv = 1
    /\ loaded = <<>>
    /\ produced = <<>>

\* filtered is not called on its own
IdleFilter ==
    /\ f_build = 0
    /\ f_filters = <<>>
    /\ filter_out = NoValue

\* repeat_on_boot_failure is not called on its own
IdleBoot ==
    /\ log = [none |-> "None"]
    /\ boot_ret = NoValue

\* no CI job is observed
IdleJobs ==
    /\ job_env = <<>>
    /\ hw = <<>>
    /\ sem = <<>>
    /\ cleanup = <<>>

IdleMore ==
    /\ IdleFilter
    /\ IdleBoot
    /\ IdleJobs

Init ==
    /\ builds \in {[k \in 1..n |-> k] : n \in 0..MaxBuilds}
    /\ bi = 1
    /\ results = [o \in {SUCCESS, FAILURE, SKIP} |-> <<>>]
    /\ exit_code = NoValue
    /\ calls = <<>>
    /\ ret = NoValue
    /\ pc = "rb_for"
    /\ script = <<>>
    /\ final_script = <<>>
    /\ junit = FALSE
    /\ result = SKIP
    /\ tries_left = 0
    /\ si = 1
    /\ fi = 1
    /\ attempts = 0
    /\ attempt_results = <<>>
    /\ executed = <<>>
    /\ report = NoReport
    /\ dir_exists \in BOOLEAN
    /\ dir_files = IF dir_exists THEN StaleFiles ELSE {}
    /\ IdleMain
    /\ IdleResolve
    /\ IdleLoad
    /\ IdleMore

\* ---- run_builds ---------------------------------------------------------

\* for build in builds: run_fun(manifest_dir, build), up to the while loop
\* of run_build_script
run_fun ==
    /\ pc = "rb_for"
    /\ bi <= Len(builds)
    /\ calls' = Append(calls, builds[bi])
    /\ \E n \in 0..MaxScript, m \in 0..MaxFinal, j \in BOOLEAN :
          /\ script' = driver_script("script", n)
          /\ final_script' = driver_script("final", m)
          /\ junit' = j
    /\ result' = SKIP
    /\ tries_left' = InitialTries
    /\ attempts' = 0
    /\ attempt_results' = <<>>
    /\ executed' = <<>>
    /\ report' = NoReport
    /\ si' = 1
    /\ fi' = 1
    /\ pc' = "rbs_while"
    /\ UNCHANGED <<builds, bi, results, exit_code, ret, dir_exists, dir_files>>
    /\ UNCHANGED ext_vars

run_builds_next_m(res, i) == IF res = FAILURE THEN Len(builds) + 1 ELSE i + 1

\* the for loop goes on with the next build
run_builds_next(res, i) == i + 1

run_builds_append_m ==
    /\ pc = "rb_append"
    /\ results' = [results EXCEPT ![SUCCESS] = Append(@, builds[bi])]
    /\ bi' = run_builds_next(ret, bi)
    /\ pc' = "rb_for"
    /\ UNCHANGED <<builds, exit_code, calls, ret, call_vars, result,
                   tries_left, si, fi, attempts, attempt_results, executed,
                   report, dir_exists, dir_files>>
    /\ UNCHANGED ext_vars

\* results[run_fun(manifest_dir, build)].append(build.name)
run_builds_append ==
    /\ pc = "rb_append"
    /\ IF ret \in DOMAIN results
          THEN /\ results' = [results EXCEPT ![ret] = Append(@, builds[bi])]
               /\ bi' = run_builds_next(ret, bi)
               /\ pc' = "rb_for"
          ELSE /\ pc' = "KeyError"
               /\ UNCHANGED <<results, bi>>
    /\ UNCHANGED <<builds, exit_code, calls, ret, call_vars, result,
                   tries_left, si, fi, attempts, attempt_results, executed,
                   report, dir_exists, dir_files>>
    /\ UNCHANGED ext_vars

\* no_failures = results[FAILURE] == []; return 0 if no_failures else 1
run_builds_return ==
    /\ pc = "rb_for"
    /\ bi > Len(builds)
    /\ exit_code' = IF results[FAILURE] = <<>> THEN 0 ELSE 1
    /\ pc' = "exit"
    /\ UNCHANGED <<builds, bi, results, calls, ret, call_vars, result,
                   tries_left, si, fi, attempts, attempt_results, executed,
                   report, dir_exists, dir_files>>
    /\ UNCHANGED ext_vars

\* ---- run_build_script ---------------------------------------------------

\* while tries_left > 0: up to result = SUCCESS before the script loop
rbs_while ==
    /\ pc = "rbs_while"
    /\ IF tries_left > 0
          THEN /\ tries_left' = tries_left - 1
               /\ dir_files' = fresh_build_dir(dir_exists, dir_files)
               /\ dir_exists' = TRUE
               /\ script' = IF junit THEN Append(script, sanitise_junit)
                                     ELSE script
               /\ result' = SUCCESS
               /\ attempts' = attempts + 1
               /\ executed' = <<>>
               /\ report' = NoReport
               /\ si' = 1
               /\ fi' = 1
               /\ pc' = "rbs_script"
          ELSE /\ pc' = "rbs_end"
               /\ UNCHANGED <<tries_left, dir_files, dir_exists, script,
                              result, attempts, executed, report, si, fi>>
    /\ UNCHANGED <<rb_vars, final_script, junit, attempt_results>>
    /\ UNCHANGED ext_vars

\* for line in script: result, _ = run_cmd_and_params(line)
rbs_script ==
    /\ pc = "rbs_script"
    /\ IF si <= Len(script)
          THEN \E r \in run_cmd_and_params(script[si]) :
                  /\ result' = r
                  /\ executed' = Append(executed, [line |-> script[si], r |-> r])
                  /\ dir_files' = dir_files \cup {File(script[si], bi, attempts)}
                  /\ IF script_break(r)
                        THEN pc' = "rbs_final" /\ si' = si
                        ELSE pc' = "rbs_script" /\ si' = si + 1
          ELSE /\ pc' = "rbs_final"
               /\ UNCHANGED <<result, executed, dir_files, si>>
    /\ UNCHANGED <<rb_vars, call_vars, tries_left, fi, attempts,
                   attempt_results, report, dir_exists>>
    /\ UNCHANGED ext_vars

\* if result != SKIP: for line in final_script: r, _ = run_cmd_and_params(line)
rbs_final ==
    /\ pc = "rbs_final"
    /\ IF run_final(result) /\ fi <= Len(final_script)
          THEN \E r \in run_cmd_and_params(final_script[fi]) :
                  /\ result' = final_result(result, r)
                  /\ executed' = Append(executed,
                                        [line |-> final_script[fi], r |-> r])
                  /\ dir_files' = dir_files
                                    \cup {File(final_script[fi], bi, attempts)}
                  /\ IF final_break(r)
                        THEN pc' = "rbs_junit" /\ fi' = fi
                        ELSE pc' = "rbs_final" /\ fi' = fi + 1
          ELSE /\ pc' = "rbs_junit"
               /\ UNCHANGED <<result, executed, dir_files, fi>>
    /\ UNCHANGED <<rb_vars, call_vars, tries_left, si, attempts,
                   attempt_results, report, dir_exists>>
    /\ UNCHANGED ext_vars

\* if result == SUCCESS and junit: result, failures = summarise_junit(...)
rbs_junit ==
    /\ pc = "rbs_junit"
    /\ IF result = SUCCESS /\ junit
          THEN \E rep \in Reports :
                  /\ report' = rep
                  /\ result' = junit_result(rep)
          ELSE UNCHANGED <<report, result>>
    /\ pc' = "rbs_tries"
    /\ UNCHANGED <<rb_vars, call_vars, tries_left, si, fi, attempts,
                   attempt_results, executed, dir_exists, dir_files>>
    /\ UNCHANGED ext_vars

\* the REPEAT handling at the end of the loop body, and the break
rbs_tries ==
    /\ pc = "rbs_tries"
    /\ attempt_results' = Append(attempt_results, result)
    /\ result' = tries_exhausted(result, tries_left)
    /\ pc' = IF loop_break(result') THEN "rbs_end" ELSE "rbs_while"
    /\ UNCHANGED <<rb_vars, call_vars, tries_left, si, fi, attempts,
                   executed, report, dir_exists, dir_files>>
    /\ UNCHANGED ext_vars

\* AnsiPrinter.step_end(...); return result
rbs_end ==
    /\ pc = "rbs_end"
    /\ ret' = result
    /\ pc' = "rb_append"
    /\ UNCHANGED <<builds, bi, results, exit_code, calls, call_vars, result,
                   tries_left, si, fi, attempts, attempt_results, executed,
                   report, dir_exists, dir_files>>
    /\ UNCHANGED ext_vars

Next ==
    \/ run_fun
    \/ run_builds_append
    \/ run_builds_return
    \/ rbs_while
    \/ rbs_script
    \/ rbs_final
    \/ rbs_junit
    \/ rbs_tries
    \/ rbs_end

Spec == Init /\ [][Next]_vars

\* ---- main of the drivers ------------------------------------------------
Drivers == {"sel4test-hw", "camkes-test"}

\* the phases of main that run a batch: default (--build) and --hw
Phases == {"build", "hw"}

\* what a driver function (hw_build, hw_run, run_build) returns for a build
run_fun_returns == {SUCCESS, FAILURE, SKIP}

\* main's return value once run_builds has returned code
main_exit(d, ph, code) ==
    IF d = "sel4test-hw" /\ ph = "hw" THEN 0 ELSE code

InitMain ==
    /\ builds \in {[k \in 1..n |-> k] : n \in 0..MaxBuilds}
    /\ bi = 1
    /\ results = [o \in {SUCCESS, FAILURE, SKIP} |-> <<>>]
    /\ exit_code = NoValue
    /\ calls = <<>>
    /\ ret = NoValue
    /\ pc = "rb_for"
    /\ script = <<>>
    /\ final_script = <<>>
    /\ junit = FALSE
    /\ result = SKIP
    /\ tries_left = 0
    /\ si = 1
    /\ fi = 1
    /\ attempts = 0
    /\ attempt_results = <<>>
    /\ executed = <<>>
    /\ report = NoReport
    /\ dir_exists = FALSE
    /\ dir_files = {}
    /\ driver \in Drivers
    /\ phase \in Phases
    /\ process_exit = NoValue
    /\ IdleResolve
    /\ IdleLoad
    /\ IdleMore

\* for build in builds: the call run_fun(manifest_dir, build) as a whole
main_run_fun ==
    /\ pc = "rb_for"
    /\ bi <= Len(builds)
    /\ calls' = Append(calls, builds[bi])
    /\ \E r \in run_fun_returns : ret' = r
    /\ pc' = "rb_append"
    /\ UNCHANGED <<builds, bi, results, exit_code, call_vars, result,
                   tries_left, si, fi, attempts, attempt_results, executed,
                   report, dir_exists, dir_files, ext_vars>>

\* main returns; sys.exit(main(sys.argv[1:]))
main_return ==
    /\ pc = "exit"
    /\ process_exit' = main_exit(driver, phase, exit_code)
    /\ pc' = "main_done"
    /\ UNCHANGED <<rb_vars, call_vars, result, tries_left, si, fi, attempts,
                   attempt_results, executed, report, dir_exists, dir_files,
                   driver, phase, resolve_vars, load_vars, more_vars>>

NextMain ==
    \/ main_run_fun
    \/ run_builds_append
    \/ run_builds_return
    \/ main_return

SpecMain == InitMain /\ [][NextMain]_vars

\* ---- values of the build configuration ----------------------------------
\* integers and strings of the yaml configuration
I(n) == [int |-> n]
S(t) == [str |-> t]

\* None
PyNone == [none |-> "None"]

IsInt(v) == "int" \in DOMAIN v
IsStr(v) == "str" \in DOMAIN v

\* truth value of a value, as `or` and `not` see it
Truthy(v) ==
    IF IsInt(v) THEN v.int # 0
    ELSE IF IsStr(v) THEN v.str # ""
    ELSE FALSE

\* str(v)
str(v) ==
    IF IsInt(v) THEN ToString(v.int)
    ELSE IF IsStr(v) THEN v.str
    ELSE "None"

\* a dict: a function from its keys; d[k] = v
EmptyDict == [k \in {} |-> ""]
Put(d, k, v) == [x \in DOMAIN d \cup {k} |-> IF x = k THEN v ELSE d[x]]
Has(d, k) == k \in DOMAIN d

\* ---- platform catalog (module platforms) --------------------------------
\* self.mode = None
NoMode == 0

PlatformNames == {"ZYNQMP", "RPI3", "PC99", "SABRE"}

Platform(name, arch, march, modes, smp, aarch_hyp, req) ==
    [name |-> name, arch |-> arch, march |-> march, modes |-> modes,
     smp |-> smp, aarch_hyp |-> aarch_hyp, req |-> req]

\* platforms.platforms
platforms ==
    [n \in PlatformNames |->
        CASE n = "ZYNQMP" ->
                 Platform(n, "arm", "armv8a", {32, 64}, {64}, {64},
                          <<"zcu102">>)
          [] n = "RPI3" ->
                 Platform(n, "arm", "armv8a", {64}, {64}, {}, <<"rpi3">>)
          [] n = "PC99" ->
                 Platform(n, "x86", "nehalem", {32, 64}, {32, 64}, {},
                          <<"skylake", "haswell">>)
          [] n = "SABRE" ->
                 Platform(n, "arm", "armv7a", {32}, {32}, {}, <<"sabre">>)]

\* platforms.mcs_unsupported
mcs_unsupported == {"RPI3"}

\* Platform.get_mode: the mode of a platform that has exactly one
platform_get_mode(p) ==
    IF Cardinality(p.modes) = 1 THEN CHOOSE m \in p.modes : TRUE ELSE NoMode

\* Platform.cmake_toolchain_setting(mode)
cmake_toolchain_setting(p, m) == IF m = 32 THEN "AARCH32" ELSE "AARCH64"

\* Platform.get_platform(mode)
platform_get_platform(p, m) == p.name

\* Platform.get_triple(mode)
get_triple(p, m) == IF m = 32 THEN "triple32" ELSE "triple64"

\* ---- class Build ---------------------------------------------------------
\* a name is the list of the pieces it is concatenated from
get_platform(b) == platforms[b.platform]

get_mode(b) ==
    IF b.mode = NoMode /\ platform_get_mode(get_platform(b)) # NoMode
       THEN platform_get_mode(get_platform(b))
       ELSE b.mode

\* if p.arch != "x86": self.settings[p.cmake_toolchain_setting(m)] = "TRUE"
arch_setting(b) ==
    IF get_platform(b).arch # "x86"
       THEN Put(b.settings,
                cmake_toolchain_setting(get_platform(b), get_mode(b)), "TRUE")
       ELSE b.settings

\* if self.req == 'sim': self.settings["SIMULATION"] = "TRUE"
sim_setting(settings, b) ==
    IF b.req = S("sim") THEN Put(settings, "SIMULATION", "TRUE") ELSE settings

update_settings(b) ==
    [b EXCEPT !.settings =
        sim_setting(Put(Put(arch_setting(b), "PLATFORM",
                            platform_get_platform(get_platform(b),
                                                  get_mode(b))),
                        "BAMBOO", "TRUE"), b)]

is_verification(b) == Has(b.settings, "VERIFICATION")
is_release(b) == Has(b.settings, "RELEASE")
is_debug(b) == ~is_release(b) /\ ~is_verification(b)
is_hyp(b) == Has(b.settings, "ARM_HYP") \/ Has(b.settings, "KernelVTX")
is_clang(b) == Has(b.settings, "TRIPLE")
is_mcs(b) == Has(b.settings, "MCS")
is_smp(b) == Has(b.settings, "SMP")
is_domains(b) == Has(b.settings, "DOMAINS")

can_release(b) == get_platform(b).name # "RPI3"
can_hyp(b) ==
    \/ get_platform(b).name = "PC99"
    \/ get_mode(b) \in get_platform(b).aarch_hyp
can_mcs(b) == get_platform(b).name \notin mcs_unsupported
can_smp_m(b) == TRUE

can_smp(b) == get_mode(b) \in get_platform(b).smp
can_domains_m(b) == TRUE

can_domains(b) == ~is_smp(b)

\* the result of a method that may raise ValidationException
Done(b) == [ok |-> TRUE, b |-> b, exc |-> "none"]
Raise(b) == [ok |-> FALSE, b |-> b, exc |-> "ValidationException"]

Set(b, k, v) == [b EXCEPT !.settings = Put(@, k, v)]

set_verification(b) == Done(Set(b, "VERIFICATION", "TRUE"))

set_release(b) ==
    IF ~can_release(b) THEN Raise(b) ELSE Done(Set(b, "RELEASE", "TRUE"))

set_hyp(b) ==
    IF ~can_hyp(b) THEN Raise(b)
    ELSE IF get_mode(b) \in get_platform(b).aarch_hyp
            THEN Done(Set(b, "ARM_HYP", "TRUE"))
    ELSE IF get_platform(b).name = "PC99"
            THEN Done(Set(b, "KernelVTX", "TRUE"))
    ELSE Raise(b)

set_clang(b) ==
    Done(Set(b, "TRIPLE", get_triple(get_platform(b), get_mode(b))))

set_mcs(b) ==
    IF ~can_mcs(b) THEN Raise(b) ELSE Done(Set(b, "MCS", "TRUE"))

set_smp(b) ==
    IF ~can_smp(b) THEN Raise(b) ELSE Done(Set(b, "SMP", "TRUE"))

set_domains(b) ==
    IF ~can_domains(b) THEN Raise(b) ELSE Done(Set(b, "DOMAINS", "TRUE"))

validate_m(b) ==
    /\ b.image_base_name # PyNone
    /\ get_mode(b) # NoMode
    /\ ~(is_mcs(b) /\ ~can_mcs(b))
    /\ ~(is_smp(b) /\ ~can_smp(b))
    /\ ~(is_release(b) /\ ~can_release(b))
    /\ ~(is_hyp(b) /\ ~can_hyp(b))

validate_m2(b) ==
    /\ b.image_base_name # PyNone
    /\ get_mode(b) # NoMode
    /\ ~(is_mcs(b) /\ ~can_mcs(b))
    /\ ~(is_release(b) /\ ~can_release(b))
    /\ ~(is_hyp(b) /\ ~can_hyp(b))
    /\ ~(is_domains(b) /\ ~can_domains(b))

\* Build.validate: TRUE iff it raises no ValidationException
validate(b) ==
    /\ b.image_base_name # PyNone
    /\ get_mode(b) # NoMode
    /\ ~(is_mcs(b) /\ ~can_mcs(b))
    /\ ~(is_smp(b) /\ ~can_smp(b))
    /\ ~(is_release(b) /\ ~can_release(b))
    /\ ~(is_hyp(b) /\ ~can_hyp(b))
    /\ ~(is_domains(b) /\ ~can_domains(b))

\* ---- variants and build_for_variant -------------------------------------
RECURSIVE join(_)
\* "_".join(strs), as the list of its pieces
join(strs) ==
    IF Len(strs) = 0 THEN <<>>
    ELSE IF Len(strs) = 1 THEN <<strs[1]>>
    ELSE <<strs[1], "_">> \o join(Tail(strs))

\* "_".join([str(v) for _, v in variant if v != ''])
variant_name(var) ==
    LET kept == SelectSeq(var, LAMBDA fv : fv[2] # S(""))
    IN  join([k \in 1..Len(kept) |-> str(kept[k][2])])

\* dict(variant).get(key)
var_dict_get(var, key) ==
    IF \E k \in 1..Len(var) : var[k][1] = key
       THEN var[CHOOSE k \in 1..Len(var) :
                   /\ var[k][1] = key
                   /\ \A j \in (k + 1)..Len(var) : var[j][1] # key][2]
       ELSE PyNone

\* one iteration of `for feature, val in variant`
apply_feature(b, feature, val) ==
    IF feature = "mcs" /\ val # S("") THEN set_mcs(b)
    ELSE IF feature = "smp" /\ val # S("") THEN set_smp(b)
    ELSE IF feature = "hyp" /\ val # S("") THEN set_hyp(b)
    ELSE IF feature = "domains" /\ val # S("") THEN set_domains(b)
    ELSE IF feature = "debug" /\ val = S("release") THEN set_release(b)
    ELSE IF feature = "debug" /\ val = S("verification")
            THEN set_verification(b)
    ELSE IF feature = "debug"
              /\ val \notin {S("debug"), S("verification"), S("release")}
            THEN Raise(b)
    ELSE IF feature = "compiler" /\ val = S("clang") THEN set_clang(b)
    ELSE IF feature = "app" THEN Done([b EXCEPT !.app = val])
    ELSE IF feature = "req" THEN Done(update_settings([b EXCEPT !.req = val]))
    ELSE Done(b)

RECURSIVE apply_variant(_, _, _)
RECURSIVE next_feature(_, _, _)
\* the loop goes on after an iteration that raised nothing
next_feature(r, var, i) == IF r.ok THEN apply_variant(r.b, var, i + 1) ELSE r

\* for feature, val in variant, from position i, until an exception
apply_variant(b, var, i) ==
    IF i > Len(var) THEN Done(b)
    ELSE next_feature(apply_feature(b, var[i][1], var[i][2]), var, i)

\* build.validate() after a loop that raised nothing
validated(r) == IF r.ok /\ ~validate(r.b) THEN Raise(r.b) ELSE r

\* the try block: the features, then build.validate()
try_features(b, var) == validated(apply_variant(b, var, 1))

\* build_filter of sel4test-hw/build.py on the platforms of the catalog
build_filter(b) ==
    LET plat == get_platform(b)
    IN  /\ ~(plat.arch = "arm" /\ plat.name = "SABRE"
               /\ is_smp(b) /\ is_mcs(b))
        /\ ~(plat.arch = "arm" /\ plat.name = "ZYNQMP"
               /\ is_hyp(b) /\ is_smp(b) /\ is_clang(b))
        /\ ~(plat.arch = "x86" /\ is_hyp(b)
               /\ (is_smp(b) \/ is_verification(b)))
        /\ ~(is_domains(b) /\ ~is_release(b))

FilterFuns == {"lambda x: True", "build_filter"}

\* filter_fun(build)
call_filter_fun(ff, b) == IF ff = "build_filter" THEN build_filter(b) ELSE TRUE

deepcopy_m(h, ref) == [heap |-> h, ref |-> ref]

\* copy.deepcopy(base_build): a new object with equal attributes
deepcopy(h, ref) == [heap |-> Append(h, h[ref]), ref |-> Len(h) + 1]

\* None as the value returned instead of a Build
NoBuild == 0

\* no value is returned: an exception leaves build_for_variant
Escapes == -1

catches_m(exc) == FALSE

\* except ValidationException
catches(exc) == exc = "ValidationException"

resolve_mode_m(var, b) ==
    IF get_mode(b) # NoMode THEN I(get_mode(b)) ELSE var_dict_get(var, "mode")

\* mode = var_dict.get("mode") or build.get_mode()
resolve_mode(var, b) ==
    IF Truthy(var_dict_get(var, "mode")) THEN var_dict_get(var, "mode")
    ELSE I(get_mode(b))

\* mode in build.get_platform().modes
mode_supported(mode, b) == IsInt(mode) /\ mode.int \in get_platform(b).modes

\* build_for_variant returns the objects of the heap afterwards and the
\* object returned. From the end of the try block on, for the copy c:
bfv_return(c, r, ff) ==
    [heap |-> [c.heap EXCEPT ![c.ref] = r.b],
     out |-> IF ~r.ok THEN (IF catches(r.exc) THEN NoBuild ELSE Escapes)
             ELSE IF call_filter_fun(ff, r.b) THEN c.ref ELSE NoBuild]

\* from `if mode not in build.get_platform().modes` on, b the renamed copy
bfv_mode(c, b, mode, var, ff) ==
    IF ~mode_supported(mode, b)
       THEN [heap |-> [c.heap EXCEPT ![c.ref] = b], out |-> NoBuild]
       ELSE bfv_return(c,
               try_features(update_settings([b EXCEPT !.mode = mode.int]),
                            var),
               ff)

\* from `mode = var_dict.get("mode") or build.get_mode()` on
bfv_named(c, b, var, ff) == bfv_mode(c, b, resolve_mode(var, b), var, ff)

\* from `build.name = build.name + "_" + variant_name(variant)` on
bfv_copied(c, var, ff) ==
    bfv_named(c, [c.heap[c.ref] EXCEPT
                     !.name = @ \o <<"_">> \o variant_name(var)], var, ff)

\* build_for_variant(base_build, variant, filter_fun) on the objects of h
build_for_variant(h, base_build, var, ff) ==
    bfv_copied(deepcopy(h, base_build), var, ff)

\* ---- inputs of build_for_variant ----------------------------------------
MaxAxes == 2        \* axes of a variant
MaxCalls == 2       \* calls of build_for_variant with the same arguments

\* if self.get_mode(): self.update_settings()
init_settings(b) == IF get_mode(b) # NoMode THEN update_settings(b) ELSE b

\* Build.__init__ for a builds.yml entry
Build(name, platform, mode, settings, image_base_name) ==
    init_settings([name |-> name, platform |-> platform, mode |-> mode,
                   app |-> PyNone, req |-> PyNone, settings |-> settings,
                   image_base_name |-> image_base_name])

\* settings of the default section of builds.yml
DefaultSettings ==
    {[k \in ks |-> "TRUE"] :
        ks \in {{}, {"SMP"}, {"DOMAINS"}, {"ARM_HYP"}, {"MCS"}, {"RELEASE"}}}

\* base builds: with default settings, with a mode of their own (also one
\* the platform lacks), and without an image base name
BaseBuilds ==
    {Build(<<"b">>, p, NoMode, st, S("sel4test-driver")) :
        p \in PlatformNames, st \in DefaultSettings}
    \cup {Build(<<"b">>, p, m, EmptyDict, S("sel4test-driver")) :
             p \in PlatformNames, m \in {32, 64}}
    \cup {Build(<<"b">>, p, NoMode, EmptyDict, PyNone) : p \in PlatformNames}

\* the values an axis of the variants section can list
AxisValues ==
    [a \in {"mode", "smp", "domains", "mcs", "hyp", "debug", "compiler",
            "app", "req"} |->
        CASE a = "mode" -> {I(32), I(64)}
          [] a = "smp" -> {S(""), S("smp")}
          [] a = "domains" -> {S(""), S("domains")}
          [] a = "mcs" -> {S(""), S("mcs")}
          [] a = "hyp" -> {S(""), S("hyp")}
          [] a = "debug" -> {S("debug"), S("release"), S("verification"),
                             S("fast")}
          [] a = "compiler" -> {S("gcc"), S("clang")}
          [] a = "app" -> {S("hello")}
          [] a = "req" -> {S("sim")}]

Axes == DOMAIN AxisValues

\* the variants of up to n axes: one value for each of distinct axes
AxisPairs == UNION {{<<a, x>> : x \in AxisValues[a]} : a \in Axes}

VariantsOfLen(n) ==
    {v \in [1..n -> AxisPairs] :
        \A j, k \in 1..n : j # k => v[j][1] # v[k][1]}

Variants == UNION {VariantsOfLen(n) : n \in 0..MaxAxes}

\* run_builds and run_build_script are not running
IdleRun ==
    /\ builds = <<>>
    /\ bi = 1
    /\ results = [o \in {SUCCESS, FAILURE, SKIP} |-> <<>>]
    /\ exit_code = NoValue
    /\ calls = <<>>
    /\ ret = NoValue
    /\ pc = "idle"
    /\ script = <<>>
    /\ final_script = <<>>
    /\ junit = FALSE
    /\ result = SKIP
    /\ tries_left = 0
    /\ si = 1
    /\ fi = 1
    /\ attempts = 0
    /\ attempt_results = <<>>
    /\ executed = <<>>
    /\ report = NoReport
    /\ dir_exists = FALSE
    /\ dir_files = {}

InitResolve ==
    /\ IdleRun
    /\ IdleMain
    /\ IdleLoad
    /\ IdleMore
    /\ \E b \in BaseBuilds :
          /\ heap = <<b>>
          /\ base0 = b
    /\ base = 1
    /\ variant \in Variants
    /\ filter_fun \in FilterFuns
    /\ outs = <<>>

\* the attributes of a returned Build, or NoBuild
Returned(h, out) ==
    IF out = NoBuild THEN [none |-> "None"]
    ELSE IF out = Escapes THEN [raised |-> "ValidationException"]
    ELSE h[out]

\* the caller keeps what the call returned
resolve_returned(r) ==
    /\ heap' = r.heap
    /\ outs' = Append(outs, Returned(r.heap, r.out))

\* a call build_for_variant(base, variant, filter_fun)
resolve ==
    /\ Len(outs) < MaxCalls
    /\ resolve_returned(build_for_variant(heap, base, variant, filter_fun))
    /\ UNCHANGED <<base, base0, variant, filter_fun, main_vars, load_vars,
                   more_vars, rb_vars, call_vars, pc, result, tries_left, si, fi,
                   attempts, attempt_results, executed, report, dir_exists,
                   dir_files>>

NextResolve == resolve

SpecResolve == InitResolve /\ [][NextResolve]_vars

\* ---- variants ------------------------------------------------------------
RECURSIVE list_mult_m(_, _)
list_mult_m(xs, ys) ==
    IF ys = <<>> THEN <<>>
    ELSE [i \in 1..Len(xs) |-> Append(xs[i], Head(ys))]
         \o list_mult_m(xs, Tail(ys))

RECURSIVE list_mult(_, _)
\* for x in xs: for y in ys: combinations.append(x + [y])
list_mult(xs, ys) ==
    IF xs = <<>> THEN <<>>
    ELSE [j \in 1..Len(ys) |-> Append(Head(xs), ys[j])]
         \o list_mult(Tail(xs), ys)

\* [(k, v) for v in var_dict[k]] for the k-th key of var_dict, a dict as
\* the list of its (key, list of values) items in declaration order
axis_pairs(var_dict, k) ==
    [j \in 1..Len(var_dict[k][2]) |-> <<var_dict[k][1], var_dict[k][2][j]>>]

RECURSIVE variants_from(_, _, _)
\* for k in keys[1:]: all = list_mult(all, ...), from the k-th key on
variants_from(all, var_dict, k) ==
    IF k > Len(var_dict) THEN all
    ELSE variants_from(list_mult(all, axis_pairs(var_dict, k)), var_dict,
                       k + 1)

\* variants(var_dict)
variants(var_dict) ==
    IF var_dict = <<>> THEN <<>>
    ELSE variants_from([j \in 1..Len(var_dict[1][2]) |->
                           <<axis_pairs(var_dict, 1)[j]>>], var_dict, 2)

\* ---- filters -------------------------------------------------------------
\* a list as the value of a filter key
L(seq) == [list |-> seq]
IsList(v) == "list" \in DOMAIN v

\* a build name as the value of a filter key
N(pieces) == [pieces |-> pieces]

\* x in v, for a list v
In(x, v) == IsList(v) /\ \E i \in 1..Len(v.list) : v.list[i] = x

\* x.upper()
upper(x) ==
    CASE x = S("zynqmp") -> S("ZYNQMP")
      [] x = S("sabre") -> S("SABRE")
      [] x = S("nonesuch") -> S("NONESUCH")
      [] OTHER -> x

\* s.strip()
strip(s) ==
    CASE s = " 64" -> "64"
      [] s = "zynqmp " -> "zynqmp"
      [] OTHER -> s

\* int(s)
int(s) ==
    CASE s = "32" -> 32 [] s = "64" -> 64 [] s = "0" -> 0 [] s = "1" -> 1
      [] s = "2" -> 2

\* Build.get_req
get_req(b) ==
    IF Truthy(b.req) THEN <<b.req>>
    ELSE [i \in 1..Len(get_platform(b).req) |-> S(get_platform(b).req[i])]

platform_attr_m(p, k) == TRUE

\* vars(build.get_platform()).get(k), as a truth value
platform_attr(p, k) ==
    CASE k \in {"name", "arch", "march"} -> TRUE
      [] k \in {"modes", "smp", "aarch_hyp"} -> p[k] # {}
      [] k = "req" -> p.req # <<>>
      [] OTHER -> FALSE

criterion_m(b, k, v) ==
    CASE k = "mcs" -> (v = S("")) = is_mcs(b)
      [] k = "smp" -> (v = S("")) = is_smp(b)
      [] k = "hyp" -> (v = S("")) = is_hyp(b)
      [] k = "domains" -> (v = S("")) = is_domains(b)
      [] OTHER -> TRUE

\* one criterion of match_dict: FALSE iff it makes match_dict return False
criterion(b, k, v) ==
    CASE k = "arch" -> In(S(get_platform(b).arch), v)
      [] k = "march" -> In(S(get_platform(b).march), v)
      [] k = "platform" ->
            /\ IsList(v)
            /\ \E i \in 1..Len(v.list) :
                  upper(v.list[i]) = S(get_platform(b).name)
      [] k = "debug" ->
            /\ is_debug(b) => In(S("debug"), v)
            /\ is_release(b) => In(S("release"), v)
            /\ is_verification(b) => In(S("verification"), v)
      [] k = "compiler" ->
            IF is_clang(b) THEN In(S("clang"), v) ELSE In(S("gcc"), v)
      [] k = "mode" -> In(I(get_mode(b)), v)
      [] k = "mcs" -> (v = S("")) # is_mcs(b)
      [] k = "smp" -> (v = S("")) # is_smp(b)
      [] k = "hyp" -> (v = S("")) # is_hyp(b)
      [] k = "domains" -> (v = S("")) # is_domains(b)
      [] k = "req" ->
            /\ IsList(v)
            /\ \A i \in 1..Len(v.list) :
                  \E j \in 1..Len(get_req(b)) : get_req(b)[j] = v.list[i]
      [] k = "name" -> In(N(b.name), v)
      [] k = "app" -> In(b.app, v)
      [] OTHER -> platform_attr(get_platform(b), k)

match_dict_m(b, f) == \E k \in DOMAIN f : criterion(b, k, f[k])

\* match_dict(build, f)
match_dict(b, f) == \A k \in DOMAIN f : criterion(b, k, f[k])

\* filtered(build, build_filters) for the object `build` of h, or None
filtered(h, build, build_filters) ==
    IF build = NoBuild THEN NoBuild
    ELSE IF build_filters = <<>> THEN build
    ELSE IF \E i \in 1..Len(build_filters) : match_dict(h[build], build_filters[i])
            THEN build
    ELSE NoBuild

\* the keys get_env_filters reads
EnvKeys == {"march", "arch", "mode", "compiler", "debug", "platform", "name",
            "app", "req"}

\* get_env_filters(): env maps the keys that are set to the parts of their
\* value between the commas; the empty string has one empty part
get_env_filters(env) ==
    LET set == {k \in DOMAIN env \cap EnvKeys : env[k] # <<"">>}
    IN  <<[k \in set |->
             L([i \in 1..Len(env[k]) |->
                   IF k = "mode" THEN I(int(strip(env[k][i])))
                   ELSE S(strip(env[k][i]))])]>>

\* ---- load_builds ---------------------------------------------------------
MaxBases == 2       \* entries of the builds section of builds.yml

\* platforms.platforms.keys()
PlatformOrder == <<"ZYNQMP", "RPI3", "PC99", "SABRE">>

\* build_for_platform(platform, default)
build_for_platform(platform, default) ==
    Build(<<platform>>, platform, NoMode, default.settings,
          default.image_base_name)

\* the name of the k-th entry of the builds section
BaseName(k) == <<"b", ToString(k)>>

\* the builds section: up to MaxBases entries with names of their own
YmlBuilds ==
    UNION {[1..n -> {"ZYNQMP", "SABRE"}] : n \in 0..MaxBases}

\* the axes a variants section lists, each with its values
YmlAxes ==
    {<<"mode", <<I(32), I(64)>>>>,
     <<"smp", <<S(""), S("smp")>>>>,
     <<"smp", <<S(""), S("on")>>>>,
     <<"mcs", <<S(""), S("on")>>>>,
     <<"debug", <<S("release"), S("fast")>>>>,
     <<"app", <<S("hello")>>>>,
     <<"hyp", <<>>>>}

\* the variants section: up to MaxAxes axes with distinct keys
YmlVariants ==
    UNION {{d \in [1..n -> YmlAxes] :
               \A j, k \in 1..n : j # k => d[j][1] # d[k][1]} :
           n \in 0..MaxAxes}

PlainDefault ==
    [settings |-> EmptyDict, image_base_name |-> S("sel4test-driver")]

\* the default and build-filter sections, and the INPUT_ variables set
YmlConfigs ==
    {[default |-> PlainDefault, build_filter |-> <<>>, environ |-> EmptyDict],
     [default |-> [PlainDefault EXCEPT !.settings = [k \in {"SMP"} |-> "TRUE"]],
      build_filter |-> <<[k \in {"mode"} |-> L(<<I(64)>>)]>>,
      environ |-> [k \in {"app"} |-> <<"">>]],
     [default |-> PlainDefault,
      build_filter |-> <<[k \in {"platform"} |-> L(<<S("sabre")>>)],
                         [k \in {"smp"} |-> S("")]>>,
      environ |-> [k \in {"platform", "mode"} |->
                      IF k = "platform" THEN <<"zynqmp ">>
                      ELSE <<"32", " 64">>]]}

InitLoad ==
    /\ IdleRun
    /\ IdleMain
    /\ IdleMore
    /\ \E c \in YmlConfigs, bs \in YmlBuilds, vs \in YmlVariants :
          /\ yml = [default |-> c.default, build_filter |-> c.build_filter,
                    variants |-> vs, builds |-> bs]
          /\ environ = c.environ
    /\ filter_fun \in FilterFuns
    /\ heap = <<>>
    /\ base = 0
    /\ base0 = 0
    /\ variant = <<>>
    /\ outs = <<>>
    /\ lpc = "start"
    /\ all_variants = <<>>
    /\ base_builds = <<>>
    /\ lb = 1
    /\ lv = 1
    /\ loaded = <<>>
    /\ produced = <<>>

run_unchanged ==
    UNCHANGED <<main_vars, more_vars, rb_vars, call_vars, pc, result,
                tries_left, si, fi, attempts, attempt_results, executed,
                report, dir_exists, dir_files>>

\* load_builds up to `if all_variants == []`
load_start ==
    /\ lpc = "start"
    /\ all_variants' = variants(yml.variants)
    /\ heap' = IF yml.builds = <<>>
                  THEN [k \in 1..Len(PlatformOrder) |->
                           build_for_platform(PlatformOrder[k], yml.default)]
                  ELSE [k \in 1..Len(yml.builds) |->
                           Build(BaseName(k), yml.builds[k], NoMode,
                                 yml.default.settings,
                                 yml.default.image_base_name)]
    /\ base_builds' = [k \in 1..Len(heap') |-> k]
    /\ lpc' = IF all_variants' = <<>> THEN "comprehension" ELSE "for"
    /\ UNCHANGED <<yml, environ, lb, lv, loaded, produced, base, base0,
                   variant, filter_fun, outs>>
    /\ run_unchanged

\* builds = [b for b in base_builds if b and filtered(..) and filtered(..)]
load_comprehension ==
    /\ lpc = "comprehension"
    /\ loaded' = SelectSeq(base_builds,
                    LAMBDA b :
                       /\ filtered(heap, b, yml.build_filter) # NoBuild
                       /\ filtered(heap, b, get_env_filters(environ)) # NoBuild)
    /\ lpc' = "done"
    /\ UNCHANGED <<yml, environ, all_variants, base_builds, lb, lv, produced,
                   resolve_vars>>
    /\ run_unchanged

\* the next (b, v) of `for b in base_builds: for v in all_variants`
load_next(n, len) ==
    IF n < len THEN [lb |-> lb, lv |-> n + 1] ELSE [lb |-> lb + 1, lv |-> 1]

both_filtered_m(h, build) == filtered(h, build, yml.build_filter)

\* build = filtered(build, build_filters); build = filtered(build, env_filters)
both_filtered(h, build) ==
    filtered(h, filtered(h, build, yml.build_filter),
             get_env_filters(environ))

\* if build: builds.append(build)
appended(list, build) ==
    IF build # NoBuild THEN Append(list, build) ELSE list

\* the loop body after build_for_variant returned r
load_body(r) ==
    /\ heap' = r.heap
    /\ produced' = Append(produced,
                      [b |-> lb, v |-> lv, out |-> Returned(r.heap, r.out)])
    /\ IF r.out = Escapes
          THEN /\ lpc' = "raised"
               /\ UNCHANGED <<loaded, lb, lv>>
          ELSE /\ lpc' = lpc
               /\ loaded' = appended(loaded, both_filtered(r.heap, r.out))
               /\ lb' = load_next(lv, Len(all_variants)).lb
               /\ lv' = load_next(lv, Len(all_variants)).lv

\* one iteration of the inner loop over all_variants
load_iteration ==
    /\ lpc = "for"
    /\ lb <= Len(base_builds)
    /\ load_body(build_for_variant(heap, base_builds[lb], all_variants[lv],
                                   filter_fun))
    /\ UNCHANGED <<yml, environ, all_variants, base_builds, base, base0,
                   variant, filter_fun, outs>>
    /\ run_unchanged

\* return builds
load_return ==
    /\ lpc = "for"
    /\ lb > Len(base_builds)
    /\ lpc' = "done"
    /\ UNCHANGED <<yml, environ, all_variants, base_builds, lb, lv, loaded,
                   produced, resolve_vars>>
    /\ run_unchanged

NextLoad ==
    \/ load_start
    \/ load_comprehension
    \/ load_iteration
    \/ load_return

SpecLoad == InitLoad /\ [][NextLoad]_vars

\* ---- filtered, called on its own ---------------------------------------
MaxSets == 2        \* filter sets of a build_filters list
MaxCriteria == 2    \* criteria of a build_filters list, over all its sets

\* the values a filter set can give to a key; aarch_hyp is an attribute of
\* the platform descriptor, bogus is no attribute and no filter key
FilterValues ==
    [k \in {"platform", "mode", "smp", "mcs", "hyp", "domains", "aarch_hyp",
            "bogus"} |->
        CASE k = "platform" -> {L(<<S("zynqmp")>>), L(<<S("nonesuch")>>)}
          [] k = "mode" -> {L(<<I(64)>>)}
          [] k = "smp" -> {S(""), S("smp"), L(<<S("")>>)}
          [] k = "mcs" -> {S(""), S("on")}
          [] k = "hyp" -> {S(""), S("hyp")}
          [] k = "domains" -> {S(""), S("domains")}
          [] OTHER -> {S("")}]

\* the filter sets of exactly n criteria
FilterSets(n) ==
    UNION {{f \in [ks -> UNION {FilterValues[k] : k \in ks}] :
               \A k \in ks : f[k] \in FilterValues[k]} :
           ks \in {x \in SUBSET DOMAIN FilterValues : Cardinality(x) = n}}

\* the lists of n filter sets with at most c criteria in all
RECURSIVE FilterLists(_, _)
FilterLists(n, c) ==
    IF n = 0 THEN {<<>>}
    ELSE UNION {{<<f>> \o l : f \in FilterSets(k),
                              l \in FilterLists(n - 1, c - k)} :
                k \in 0..c}

\* the builds handed to filtered: of a mode, with the settings of one flag
FilterBuilds ==
    {Build(<<"b">>, pm[1], pm[2], st, S("sel4test-driver")) :
        pm \in {<<"ZYNQMP", 64>>, <<"PC99", 32>>}, st \in DefaultSettings}

InitFilter ==
    /\ IdleRun
    /\ IdleMain
    /\ IdleLoad
    /\ \/ /\ \E b \in FilterBuilds : heap = <<b>>
          /\ f_build = 1
       \/ /\ heap = <<>>
          /\ f_build = NoBuild
    /\ base = 0
    /\ base0 = 0
    /\ variant = <<>>
    /\ filter_fun = "none"
    /\ outs = <<>>
    /\ f_filters \in UNION {FilterLists(n, MaxCriteria) : n \in 0..MaxSets}
    /\ filter_out = NoValue
    /\ IdleBoot
    /\ IdleJobs

\* a call filtered(build, build_filters)
filter_call ==
    /\ filter_out = NoValue
    /\ filter_out' = filtered(heap, f_build, f_filters)
    /\ UNCHANGED <<f_build, f_filters, resolve_vars, load_vars, boot_vars,
                   job_vars>>
    /\ UNCHANGED <<main_vars, rb_vars, call_vars, pc, result, tries_left, si,
                   fi, attempts, attempt_results, executed, report,
                   dir_exists, dir_files>>

NextFilter == filter_call

SpecFilter == InitFilter /\ [][NextFilter]_vars

\* ---- repeat_on_boot_failure ---------------------------------------------
MaxPad == 1         \* log lines before and after the lines of a signature

\* boot_fail_patterns
boot_fail_patterns ==
    << <<"[[Boot timeout]]", "None", "0 tries remaining..", "",
         "[[Timeout]]">>,
       <<"*** ERROR: `ipaddr' not set", "Config file not found",
         "Tegra186 (P2771-0000-500) #", "[[Timeout]]", "None">>,
       <<"Retry count exceeded; starting again", "u-boot=>", "[[Timeout]]">>,
       <<"ARP Retry count exceeded; starting again",
         "## Starting application at", "", "[[Timeout]]", "None", "",
         "console_run returned -1">>,
       <<"ARP Retry count exceeded; starting again",
         "## Starting application at">>
       \o [k \in 1..19 |-> "sbi_trap_error: hart"]
       \o <<"", "[[Timeout]]", "None", "", "console_run returned -1">> >>

\* p in t, for the texts of the signatures and of the logs
substring(p, t) ==
    \/ p = ""
    \/ p = t
    \/ /\ p = "Retry count exceeded; starting again"
       /\ t = "ARP Retry count exceeded; starting again"

\* p in line: a log line is the sequence of the texts it is made of
contains(p, line) == \E k \in 1..Len(line) : substring(p, line[k])

\* all(p in log[i+j] for j, p in enumerate(pat)), i counted from 1
all_in(pat, lg, i) ==
    \A j \in 1..Len(pat) : contains(pat[j], lg[i + j - 1])

fires_m(pat, lg) == \E i \in 1..(Len(lg) - Len(pat)) : all_in(pat, lg, i)

\* for i in range(len(log)+1-len(pat)): if all(...)
fires(pat, lg) == \E i \in 1..(Len(lg) + 1 - Len(pat)) : all_in(pat, lg, i)

\* repeat_on_boot_failure(log): the return code of the returned pair
repeat_on_boot_failure(lg) ==
    IF lg # PyNone /\ lg # L(<<>>)
       THEN IF \E n \in 1..Len(boot_fail_patterns) :
                  fires(boot_fail_patterns[n], lg.list)
               THEN REPEAT
               ELSE SUCCESS
       ELSE SUCCESS

\* the lines of a signature as a board prints them: alone, or after a
\* time stamp
Printed(pat, stamped) ==
    [j \in 1..Len(pat) |->
        IF stamped THEN <<"[00:01]", pat[j]>> ELSE <<pat[j]>>]

\* the sequence sq without its k-th element
Without(sq, k) == SubSeq(sq, 1, k - 1) \o SubSeq(sq, k + 1, Len(sq))

\* the printed lines of a signature: all of them, with one line saying
\* something else, or with one line missing
Bodies ==
    UNION {{Printed(boot_fail_patterns[n], st) : st \in BOOLEAN}
           \cup {[Printed(boot_fail_patterns[n], FALSE)
                     EXCEPT ![k] = <<"1 tries remaining..">>] :
                    k \in 1..Len(boot_fail_patterns[n])}
           \cup {Without(Printed(boot_fail_patterns[n], FALSE), k) :
                    k \in 1..Len(boot_fail_patterns[n])} :
           n \in 1..Len(boot_fail_patterns)}

\* up to MaxPad lines of other output
Pads == UNION {[1..n -> {<<"Booting all finished">>}] : n \in 0..MaxPad}

\* the logs handed to repeat_on_boot_failure
Logs ==
    {PyNone}
    \cup {L(pad) : pad \in Pads}
    \cup {L(pre \o body \o post) :
             pre \in Pads, body \in Bodies, post \in Pads}

InitBoot ==
    /\ IdleRun
    /\ IdleMain
    /\ IdleResolve
    /\ IdleLoad
    /\ IdleFilter
    /\ log \in Logs
    /\ boot_ret = NoValue
    /\ IdleJobs

\* a call repeat_on_boot_failure(log)
boot_call ==
    /\ boot_ret = NoValue
    /\ boot_ret' = repeat_on_boot_failure(log)
    /\ UNCHANGED <<log, filter_vars, job_vars, resolve_vars, load_vars>>
    /\ UNCHANGED <<main_vars, rb_vars, call_vars, pc, result, tries_left, si,
                   fi, attempts, attempt_results, executed, report,
                   dir_exists, dir_files>>

NextBoot == boot_call

SpecBoot == InitBoot /\ [][NextBoot]_vars

\* ---- the machine queue commands -----------------------------------------
\* os.environ.get('INPUT_INDEX', '$0')
input_index(e) ==
    IF "INPUT_INDEX" \in DOMAIN e THEN e.INPUT_INDEX ELSE <<"$", "0">>

\* job_key(): texts are sequences of pieces, "-" a piece of its own
job_key(e) ==
    e.GITHUB_REPOSITORY \o <<"-">> \o e.GITHUB_WORKFLOW \o <<"-">>
    \o e.GITHUB_RUN_ID \o <<"-">> \o e.GITHUB_JOB \o <<"-">>
    \o Tail(input_index(e))

\* int(os.environ.get('INPUT_INDEX', '$0')[1:])
job_index(e) == int(Tail(input_index(e))[1])

get_machine_m(req, e) == IF req = <<>> THEN PyNone ELSE req[1]

\* get_machine(req)
get_machine(req, e) ==
    IF req = <<>> THEN PyNone ELSE req[(job_index(e) % Len(req)) + 1]

\* '-T', '1800': the lock can be reclaimed after 30 min
ReclaimTimeout == 1800

mq_lock_m(machine, e) ==
    [argv |-> <<"time", "mq.sh", "sem", "-wait">>, machine |-> machine,
     k |-> job_key(e), T |-> 0]

\* mq_lock(machine)
mq_lock(machine, e) ==
    [argv |-> <<"time", "mq.sh", "sem", "-wait">>, machine |-> machine,
     k |-> job_key(e), T |-> ReclaimTimeout]

\* mq_release(machine)
mq_release(machine, e) ==
    [argv |-> <<"mq.sh", "sem", "-signal">>, machine |-> machine,
     k |-> job_key(e)]

\* mq_cancel(machine)
mq_cancel(machine, e) ==
    [argv |-> <<"mq.sh", "sem", "-cancel">>, machine |-> machine,
     k |-> job_key(e)]

\* mq_print_lock(machine)
mq_print_lock(machine) ==
    [argv |-> <<"mq.sh", "sem", "-info">>, machine |-> machine]

\* mq_run(success_str, machine, files, completion_timeout, lock_held, key)
mq_run(machine, completion_timeout, lock_held, key) ==
    [argv |-> <<"time", "mq.sh", "run">>, machine |-> machine,
     d |-> completion_timeout, n |-> lock_held, k |-> key]

\* ---- Run.hw_run ----------------------------------------------------------
\* platforms whose descriptor has no_hw_test set
no_hw_test == {"RPI3"}

is_disabled_m(b) == b.no_hw_test

\* Build.is_disabled
is_disabled(b) == b.no_hw_test \/ get_platform(b).name \in no_hw_test

\* machine.endswith("_pool")
is_pool(machine) == machine = S("skylake_pool")

\* the script and the final script for a machine that was found
hw_script_m(b, machine, e) ==
    [script |-> <<[argv |-> <<"tar", "xvzf">>, file |-> b.name],
                  mq_print_lock(machine),
                  mq_run(machine, b.timeout, TRUE, job_key(e)),
                  mq_lock(machine, e)>>,
     final |-> <<[fun |-> "repeat_on_boot_failure"],
                 mq_release(machine, e)>>]

hw_script(b, machine, e) ==
    [script |-> <<[argv |-> <<"tar", "xvzf">>, file |-> b.name],
                  mq_print_lock(machine),
                  mq_lock(machine, e),
                  mq_run(machine, b.timeout, TRUE, job_key(e))>>,
     final |-> <<[fun |-> "repeat_on_boot_failure"],
                 mq_release(machine, e)>>]

\* from `machine = get_machine(self.get_req())` on
hw_run_on(b, machine, e) ==
    IF machine = PyNone \/ is_pool(machine)
       THEN [script |-> <<[argv |-> <<"echo">>], [argv |-> <<"exit", "1">>]>>,
             final |-> <<>>]
       ELSE hw_script(b, machine, e)

\* Run(build).hw_run(log) in a job with the environment e
hw_run(b, e) ==
    IF is_disabled(b)
       THEN [script |-> <<[fun |-> "lambda r: SKIP"]>>, final |-> <<>>]
       ELSE hw_run_on(b, get_machine(get_req(b), e), e)

\* ---- the lock service ----------------------------------------------------
\* no job holds the lock
Free == <<>>

\* a lock nobody holds
FreeLock == [holder |-> Free, age |-> 0, reclaimed |-> {}]

\* sem -wait returns for the key of line: the lock is free, held under the
\* same key, or held for at least the reclaim timeout -T
grantable(l, line) ==
    \/ l.holder = Free
    \/ l.holder = line.k
    \/ l.age >= line.T

\* the lock after sem -wait returned for the key of line; a holder it is
\* taken from is remembered as reclaimed
granted(l, line) ==
    [holder |-> line.k, age |-> 0,
     reclaimed |-> (IF l.holder \in {Free, line.k} THEN l.reclaimed
                    ELSE l.reclaimed \cup {l.holder}) \ {line.k}]

\* the lock after sem -signal for the key of line
signalled(l, line) ==
    IF l.holder = line.k THEN [l EXCEPT !.holder = Free, !.age = 0] ELSE l

IsWait(line) == "argv" \in DOMAIN line /\ line.argv[Len(line.argv)] = "-wait"
IsSignal(line) ==
    "argv" \in DOMAIN line /\ line.argv[Len(line.argv)] = "-signal"
IsRun(line) == "argv" \in DOMAIN line /\ line.argv[Len(line.argv)] = "run"

\* the locks after the command of line returned r
sem_after(sm, line, r) ==
    IF r = SUCCESS /\ IsWait(line)
       THEN [sm EXCEPT ![line.machine] = granted(@, line)]
    ELSE IF r = SUCCESS /\ IsSignal(line)
       THEN [sm EXCEPT ![line.machine] = signalled(@, line)]
    ELSE sm

\* what a command can return given the locks: sem -wait blocks until the
\* lock can be granted
returns(sm, line) ==
    IF IsWait(line) /\ ~grantable(sm[line.machine], line)
       THEN run_cmd_and_params(line) \ {SUCCESS}
       ELSE run_cmd_and_params(line)

\* ---- two CI jobs, each with one hardware run -----------------------------
Jobs == {1, 2}

\* os.environ of a CI job of run r with the shard index i
Environ(r, i) ==
    [GITHUB_REPOSITORY |-> <<"seL4/ci">>, GITHUB_WORKFLOW |-> <<"hw">>,
     GITHUB_RUN_ID |-> <<r>>, GITHUB_JOB |-> <<"run">>,
     INPUT_INDEX |-> <<"$", i>>]

\* self.timeout = 900
DefaultTimeout == 900

\* a resolved build with its hardware attributes
HwBuild(b, timeout, disabled) ==
    b @@ [timeout |-> timeout, no_hw_test |-> disabled]

\* the builds of the jobs: PC99 with two machines, with the default timeout
\* and with a timeout of the configuration beyond the reclaim timeout
HwBuilds ==
    {HwBuild(Build(<<"pc99">>, "PC99", 64, EmptyDict, S("sel4test-driver")),
             t, FALSE) : t \in {DefaultTimeout, 4 * DefaultTimeout}}

\* builds excluded from hardware tests: by their own flag, by their platform
DisabledBuilds ==
    {HwBuild(Build(<<"pc99">>, "PC99", 64, EmptyDict, S("sel4test-driver")),
             DefaultTimeout, TRUE),
     HwBuild(Build(<<"rpi3">>, "RPI3", 64, EmptyDict, S("sel4test-driver")),
             DefaultTimeout, FALSE)}

\* a build whose req names a pool of machines
PoolBuild ==
    HwBuild([Build(<<"pc99">>, "PC99", 64, EmptyDict, S("sel4test-driver"))
                EXCEPT !.req = S("skylake_pool")],
            DefaultTimeout, FALSE)

\* the build and the phase of a job: the hardware phase and the build phase
JobInputs ==
    {[build |-> b, phase |-> "hw"] :
        b \in HwBuilds \cup DisabledBuilds \cup {PoolBuild}}
    \cup {[build |-> b, phase |-> "build"] : b \in DisabledBuilds}

\* the machines of the builds
Machines == {S("skylake"), S("haswell")}

\* the locals of run_build_script before the hardware run of build b
Job(b, j, ph) ==
    [build |-> b, phase |-> ph, junit |-> j, pc |-> "start", script |-> <<>>,
     final_script |-> <<>>, result |-> SKIP, tries_left |-> 0, si |-> 1,
     fi |-> 1, executed |-> <<>>, running |-> FALSE, elapsed |-> 0,
     ret |-> NoValue]

InitJobs ==
    /\ IdleRun
    /\ IdleMain
    /\ IdleResolve
    /\ IdleLoad
    /\ IdleFilter
    /\ IdleBoot
    /\ job_env = [j \in Jobs |-> IF j = 1 THEN Environ("1", "0")
                                    ELSE Environ("2", "0")]
    /\ \E x \in JobInputs, c \in HwBuilds :
          /\ c.timeout = DefaultTimeout
          /\ hw = [j \in Jobs |-> IF j = 1 THEN Job(x.build, FALSE, x.phase)
                                   ELSE Job(c, FALSE, "hw")]
    /\ sem = [m \in Machines |-> FreeLock]
    /\ cleanup = <<>>

jobs_unchanged ==
    UNCHANGED <<job_env, cleanup, filter_vars, boot_vars, resolve_vars,
                load_vars,
                main_vars, rb_vars, call_vars, pc, result, tries_left, si,
                fi, attempts, attempt_results, executed, report, dir_exists,
                dir_files>>

\* hw_run(manifest_dir, build) of a driver, up to the while loop of
\* run_build_script
job_hw_run(j) ==
    /\ hw[j].pc = "start"
    /\ hw[j].phase = "hw"
    /\ hw' = [hw EXCEPT ![j] =
                IF is_disabled(@.build)
                   THEN [@ EXCEPT !.ret = SKIP, !.pc = "done"]
                   ELSE [@ EXCEPT !.script =
                                     hw_run(hw[j].build, job_env[j]).script,
                                  !.final_script =
                                     hw_run(hw[j].build, job_env[j]).final,
                                  !.result = SKIP,
                                  !.tries_left = InitialTries,
                                  !.pc = "while"]]
    /\ UNCHANGED sem
    /\ jobs_unchanged

\* the script of hw_build: configure, build, pack the images, copy the kernel
build_script(b) ==
    <<[argv |-> <<"../init-build.sh">>, settings |-> b.settings],
      [argv |-> <<"ninja">>],
      [argv |-> <<"tar", "czf">>, file |-> b.name],
      [argv |-> <<"cp">>, file |-> b.name]>>

\* hw_build(manifest_dir, build) of sel4test-hw, up to the while loop of
\* run_build_script
job_hw_build(j) ==
    /\ hw[j].pc = "start"
    /\ hw[j].phase = "build"
    /\ hw' = [hw EXCEPT ![j] =
                [@ EXCEPT !.script = build_script(hw[j].build),
                          !.final_script = <<>>,
                          !.result = SKIP,
                          !.tries_left = InitialTries,
                          !.pc = "while"]]
    /\ UNCHANGED sem
    /\ jobs_unchanged

\* while tries_left > 0: up to result = SUCCESS before the script loop
job_while(j) ==
    /\ hw[j].pc = "while"
    /\ hw' = [hw EXCEPT ![j] =
                IF @.tries_left > 0
                   THEN [@ EXCEPT !.tries_left = @ - 1,
                                  !.script = IF hw[j].junit
                                                THEN Append(@, sanitise_junit)
                                                ELSE @,
                                  !.result = SUCCESS,
                                  !.executed = <<>>,
                                  !.si = 1,
                                  !.fi = 1,
                                  !.pc = "script"]
                   ELSE [@ EXCEPT !.ret = hw[j].result, !.pc = "done"]]
    /\ UNCHANGED sem
    /\ jobs_unchanged

\* the job's record after the line returned r
ran(x, line, r) ==
    [x EXCEPT !.executed = Append(@, [line |-> line, r |-> r]),
              !.running = FALSE,
              !.elapsed = 0]

\* the position after the line si of the script returned r
after_line(x, r) ==
    IF script_break(r) \/ x.si = Len(x.script)
       THEN [x EXCEPT !.result = r, !.pc = "final"]
       ELSE [x EXCEPT !.result = r, !.si = @ + 1]

\* for line in script: result, _ = run_cmd_and_params(line); the run request
\* is submitted first and returns later
job_script(j) ==
    /\ hw[j].pc = "script"
    /\ IF IsRun(hw[j].script[hw[j].si]) /\ ~hw[j].running
          THEN /\ hw' = [hw EXCEPT ![j].running = TRUE]
               /\ UNCHANGED sem
          ELSE \/ \E r \in returns(sem, hw[j].script[hw[j].si]) :
                     /\ sem' = sem_after(sem, hw[j].script[hw[j].si], r)
                     /\ hw' = [hw EXCEPT ![j] =
                                 after_line(ran(@, @.script[@.si], r), r)]
               \/ /\ may_raise(hw[j].script[hw[j].si])
                  /\ hw' = [hw EXCEPT ![j].pc = "raised"]
                  /\ UNCHANGED sem
    /\ jobs_unchanged

\* the position after the line fi of the final script returned r
after_final(x, r) ==
    IF final_break(r) \/ x.fi = Len(x.final_script)
       THEN [x EXCEPT !.result = final_result(@, r), !.pc = "junit"]
       ELSE [x EXCEPT !.result = final_result(@, r), !.fi = @ + 1]

\* if result != SKIP: for line in final_script: r, _ = run_cmd_and_params(line)
job_final(j) ==
    /\ hw[j].pc = "final"
    /\ IF run_final(hw[j].result) /\ hw[j].final_script # <<>>
          THEN \E r \in returns(sem, hw[j].final_script[hw[j].fi]) :
                  /\ sem' = sem_after(sem, hw[j].final_script[hw[j].fi], r)
                  /\ hw' = [hw EXCEPT ![j] =
                              after_final(ran(@, @.final_script[@.fi], r), r)]
          ELSE /\ hw' = [hw EXCEPT ![j].pc = "junit"]
               /\ UNCHANGED sem
    /\ jobs_unchanged

\* the result after `if result == SUCCESS and junit` and the REPEAT handling
attempt_result(res, jn, rep, tries) ==
    tries_exhausted(IF res = SUCCESS /\ jn THEN junit_result(rep) ELSE res,
                    tries)

\* the end of the loop body: the test report, the REPEAT handling, the break
job_attempt_end(j) ==
    /\ hw[j].pc = "junit"
    /\ \E rep \in IF hw[j].result = SUCCESS /\ hw[j].junit THEN Reports
                   ELSE {NoReport} :
          hw' = [hw EXCEPT ![j] =
                   [@ EXCEPT
                       !.result = attempt_result(@, hw[j].junit, rep,
                                                 hw[j].tries_left),
                       !.pc = IF loop_break(attempt_result(
                                     hw[j].result, hw[j].junit, rep,
                                     hw[j].tries_left))
                                 THEN "end" ELSE "while"]]
    /\ UNCHANGED sem
    /\ jobs_unchanged

\* AnsiPrinter.step_end(...); return result
job_return(j) ==
    /\ hw[j].pc = "end"
    /\ hw' = [hw EXCEPT ![j] = [@ EXCEPT !.ret = hw[j].result,
                                          !.executed = <<>>,
                                          !.pc = "done"]]
    /\ UNCHANGED sem
    /\ jobs_unchanged

\* the job j waits in sem -wait
Waiting(j) ==
    /\ hw[j].pc = "script"
    /\ hw[j].si <= Len(hw[j].script)
    /\ IsWait(hw[j].script[hw[j].si])
    /\ ~grantable(sem[hw[j].script[hw[j].si].machine], hw[j].script[hw[j].si])

\* the time of the default timeout passes: every job is waiting for a lock
\* or for its run to complete, has not started or has returned, the other
\* steps taking no time; no run lasts longer than its completion timeout
time_passes ==
    /\ \E j \in Jobs : hw[j].running \/ Waiting(j)
    /\ \A j \in Jobs :
          \/ hw[j].pc \in {"start", "done", "raised"}
          \/ Waiting(j)
          \/ /\ hw[j].running
             /\ hw[j].elapsed + DefaultTimeout <= hw[j].build.timeout
    /\ hw' = [j \in Jobs |->
                IF hw[j].running
                   THEN [hw[j] EXCEPT !.elapsed = @ + DefaultTimeout]
                   ELSE hw[j]]
    /\ sem' = [m \in Machines |->
                 IF sem[m].holder # Free /\ sem[m].age < ReclaimTimeout
                    THEN [sem[m] EXCEPT !.age = @ + DefaultTimeout]
                    ELSE sem[m]]
    /\ jobs_unchanged

NextJobs ==
    \/ \E j \in Jobs : job_hw_run(j)
    \/ \E j \in Jobs : job_hw_build(j)
    \/ \E j \in Jobs : job_while(j)
    \/ \E j \in Jobs : job_script(j)
    \/ \E j \in Jobs : job_final(j)
    \/ \E j \in Jobs : job_attempt_end(j)
    \/ \E j \in Jobs : job_return(j)
    \/ time_passes

SpecJobs == InitJobs /\ [][NextJobs]_vars

\* ---- release_mq_locks in the --post phase of a driver --------------------
\* class SimBuild of camkes-test: name, match, exclude, iterator
SimBuild(name) == [class |-> "SimBuild", name |-> name]

\* whether r.get_req exists: Build and Run define it, SimBuild does not
has_get_req(r) == "req" \in DOMAIN r

\* reqs = [r.get_req() for r in runs] raises AttributeError
reqs_raise(runs) == \E i \in 1..Len(runs) : ~has_get_req(runs[i])

\* if req and req not in req_set: req_set.append(req)
req_append(rs, req) ==
    IF req # <<>> /\ \A i \in 1..Len(rs) : rs[i] # req
       THEN Append(rs, req)
       ELSE rs

\* req_set after the loop over [r.get_req() for r in runs]
RECURSIVE req_set(_)
req_set(runs) ==
    IF runs = <<>> THEN <<>>
    ELSE req_append(req_set(SubSeq(runs, 1, Len(runs) - 1)),
                    get_req(runs[Len(runs)]))

\* the commands run for a machine: cancel, release, lock status
release_commands(machine, e) ==
    <<mq_cancel(machine, e), mq_release(machine, e), mq_print_lock(machine)>>

\* subprocess.run(command): exit status 0, another exit status, or an
\* exception, e.g. when mq.sh is not found
RunOutcomes == {"zero", "nonzero", "exception"}

\* the exit status of the interpreter after an uncaught exception
Traceback == 1

\* os.environ of a CI job with the workflow w, the run id r, the job jb and
\* the shard index i
Identity(w, r, jb, i) ==
    [GITHUB_REPOSITORY |-> <<"seL4/ci">>, GITHUB_WORKFLOW |-> w,
     GITHUB_RUN_ID |-> <<r>>, GITHUB_JOB |-> jb,
     INPUT_INDEX |-> <<"$", i>>]

\* shard indices of the job matrix
Indices == {"0", "1", "2"}

\* workflow names and job ids, with and without "-"
Workflows == {<<"w">>, <<"w", "-", "1", "-", "a">>}
JobNames == {<<"b">>, <<"a", "-", "2", "-", "b">>}

\* a hardware build of the platform p
PostBuild(p) ==
    HwBuild(Build(<<p>>, p, NoMode, EmptyDict, S("sel4test-driver")),
            DefaultTimeout, FALSE)

\* the build lists of main: load_builds(...) in sel4test-hw, the selected
\* simulation builds followed by the hardware builds in camkes-test
BuildLists ==
    {[driver |-> "sel4test-hw",
      runs |-> <<PostBuild("PC99"), PostBuild("PC99"), PostBuild("SABRE")>>],
     [driver |-> "camkes-test", runs |-> <<PostBuild("PC99")>>],
     [driver |-> "camkes-test",
      runs |-> <<SimBuild(<<"simple">>), PostBuild("PC99")>>]}

\* the locals of main and release_mq_locks before the --post phase
PostJob(bl) ==
    [driver |-> bl.driver, runs |-> bl.runs, pc |-> "start",
     req_set |-> <<>>, ri |-> 1, ci |-> 1, issued |-> <<>>,
     failed |-> FALSE, exit |-> NoValue]

InitPost ==
    /\ IdleRun
    /\ IdleMain
    /\ IdleResolve
    /\ IdleLoad
    /\ IdleFilter
    /\ IdleBoot
    /\ hw = <<>>
    /\ sem = <<>>
    /\ \E w \in Workflows, r \in {"1", "2"}, jb \in JobNames, i \in Indices :
          job_env = [j \in Jobs |->
                        IF j = 1 THEN Identity(<<"w">>, "1", jb, i)
                        ELSE Identity(w, r, <<"b">>, "0")]
    /\ \E bl \in BuildLists, cl \in BuildLists :
          cleanup = [j \in Jobs |-> IF j = 1 THEN PostJob(bl) ELSE PostJob(cl)]

post_unchanged ==
    UNCHANGED <<job_env, hw, sem, filter_vars, boot_vars, resolve_vars,
                load_vars, main_vars, rb_vars, call_vars, pc, result,
                tries_left, si, fi, attempts, attempt_results, executed,
                report, dir_exists, dir_files>>

\* if args.post: builds.release_mq_locks(build_list), up to the loop over
\* req_set; an exception leaves main
post_reqs(j) ==
    /\ cleanup[j].pc = "start"
    /\ cleanup' = [cleanup EXCEPT ![j] =
                     IF reqs_raise(@.runs)
                        THEN [@ EXCEPT !.pc = "raised", !.exit = Traceback]
                        ELSE [@ EXCEPT !.req_set = req_set(cleanup[j].runs),
                                       !.pc = "loop"]]
    /\ post_unchanged

\* the locals after the command ci of the machine returned with outcome o
post_ran(x, line, o) ==
    [x EXCEPT !.issued = Append(@, line),
              !.failed = @ \/ o # "zero",
              !.ci = IF @ = 3 THEN 1 ELSE @ + 1,
              !.ri = IF x.ci = 3 THEN @ + 1 ELSE @]

\* for req in req_set: machine = get_machine(req); if machine: run(...)
post_run(j) ==
    /\ cleanup[j].pc = "loop"
    /\ cleanup[j].ri <= Len(cleanup[j].req_set)
    /\ \E o \in RunOutcomes :
          cleanup' = [cleanup EXCEPT ![j] =
             IF Truthy(get_machine(@.req_set[@.ri], job_env[j]))
                THEN post_ran(@, release_commands(
                                    get_machine(cleanup[j].req_set[
                                                   cleanup[j].ri],
                                                job_env[j]),
                                    job_env[j])[cleanup[j].ci], o)
                ELSE [@ EXCEPT !.ri = @ + 1]]
    /\ post_unchanged

\* release_mq_locks returns; return 0
post_return(j) ==
    /\ cleanup[j].pc = "loop"
    /\ cleanup[j].ri > Len(cleanup[j].req_set)
    /\ cleanup' = [cleanup EXCEPT ![j] = [@ EXCEPT !.pc = "done", !.exit = 0]]
    /\ post_unchanged

NextPost ==
    \/ \E j \in Jobs : post_reqs(j)
    \/ \E j \in Jobs : post_run(j)
    \/ \E j \in Jobs : post_return(j)

SpecPost == InitPost /\ [][NextPost]_vars

\* ---- observations used by the properties --------------------------------
InAttempt == pc \in {"rbs_script", "rbs_final", "rbs_junit", "rbs_tries"}

\* the lines of script / of final_script run so far in this attempt
PrimaryRun == SelectSeq(executed, LAMBDA e : e.line.src # "final")
FinalRun == SelectSeq(executed, LAMBDA e : e.line.src = "final")

\* outcome of the first line of a run that did not succeed, SUCCESS if none
FirstNonSuccess(run) ==
    IF \E k \in 1..Len(run) : run[k].r # SUCCESS
       THEN run[CHOOSE k \in 1..Len(run) :
                   /\ run[k].r # SUCCESS
                   /\ \A j \in 1..(k - 1) : run[j].r = SUCCESS].r
       ELSE SUCCESS

Provisional == FirstNonSuccess(PrimaryRun)

Returns(run, o) == \E k \in 1..Len(run) : run[k].r = o

\* C1: when every attempt of a call ended in REPEAT, the call made exactly
\* 3 attempts and returns FAILURE.
C1_RetryBound ==
    (pc = "rbs_end" /\ \A k \in 1..Len(attempt_results) :
                           attempt_results[k] = REPEAT)
    => (attempts = 3 /\ Len(attempt_results) = 3 /\ result = FAILURE)

C1_Witness ==
    /\ pc = "rbs_end"
    /\ attempt_results = <<REPEAT, REPEAT, REPEAT>>
    /\ Returns(FinalRun, REPEAT)
    /\ result = FAILURE

\* C2: run_build_script returns SUCCESS, FAILURE or SKIP, never REPEAT; a
\* REPEAT left when no tries remain is returned as FAILURE.
C2_NeverReturnsRepeat ==
    /\ pc = "rbs_end" => result \in {SUCCESS, FAILURE, SKIP}
    /\ ret # NoValue => ret \in {SUCCESS, FAILURE, SKIP}
    /\ (pc = "rbs_end" /\ attempt_results # <<>>
          /\ attempt_results[Len(attempt_results)] = REPEAT)
       => (tries_left = 0 /\ result = FAILURE)

C2_Witness ==
    /\ pc = "rb_append"
    /\ attempt_results # <<>>
    /\ attempt_results[Len(attempt_results)] = REPEAT
    /\ tries_left = 0
    /\ ret = FAILURE

\* C3: a further attempt is started only after an attempt that ended in
\* REPEAT and only while fewer than 3 attempts were made; an attempt that
\* ended in SUCCESS, FAILURE or SKIP is the last; never more than 3 attempts.
C3_RetryOnlyOnRepeat ==
    /\ attempts <= 3
    /\ Len(attempt_results) <= attempts
    /\ \A k \in 1..Len(attempt_results) :
          /\ attempt_results[k] # REPEAT => attempts = k
          /\ k < attempts => (attempt_results[k] = REPEAT /\ k < 3)

C3_Witness ==
    /\ pc = "rbs_end"
    /\ attempts = 2
    /\ attempt_results = <<REPEAT, SUCCESS>>

\* C4: within an attempt the lines of script run in declared order, none
\* runs after the first one whose outcome is not SUCCESS, and the result
\* when the script loop is left is that outcome (SUCCESS if all succeeded).
C4_PrimaryOrder ==
    InAttempt =>
       /\ Len(PrimaryRun) <= Len(script)
       /\ \A k \in 1..Len(PrimaryRun) : PrimaryRun[k].line = script[k]
       /\ \A k \in 1..(Len(PrimaryRun) - 1) : PrimaryRun[k].r = SUCCESS
       /\ pc # "rbs_script" =>
             (\/ Returns(PrimaryRun, FAILURE)
              \/ Returns(PrimaryRun, SKIP)
              \/ Returns(PrimaryRun, REPEAT)
              \/ Len(PrimaryRun) = Len(script))
       /\ (pc = "rbs_final" /\ FinalRun = <<>>) => result = Provisional

C4_Witness ==
    /\ pc = "rbs_final"
    /\ FinalRun = <<>>
    /\ Len(script) >= 2
    /\ Len(PrimaryRun) = 1
    /\ PrimaryRun[1].r = FAILURE
    /\ result = FAILURE

\* the lines of final_script were run in declared order after the script
FinalInOrder ==
    /\ executed = PrimaryRun \o FinalRun
    /\ Len(FinalRun) <= Len(final_script)
    /\ \A k \in 1..Len(FinalRun) : FinalRun[k].line = final_script[k]

\* C5 as stated: in every attempt whose primary result is not SKIP every
\* line of final_script is run, in order, after the script; none on SKIP.
C5_Original ==
    pc \in {"rbs_junit", "rbs_tries"} =>
       IF Provisional # SKIP
          THEN FinalInOrder /\ Len(FinalRun) = Len(final_script)
          ELSE FinalRun = <<>>

\* C5 amended: in every attempt whose primary result is not SKIP the lines
\* of final_script are run in declared order after the script has stopped,
\* up to and including the first one that returns FAILURE, and all of them
\* when none returns FAILURE; when the primary result is SKIP none is run.
C5_TrailerRuns ==
    pc \in {"rbs_junit", "rbs_tries"} =>
       IF Provisional # SKIP
          THEN /\ FinalInOrder
               /\ \A k \in 1..(Len(FinalRun) - 1) : FinalRun[k].r # FAILURE
               /\ Len(FinalRun) < Len(final_script) =>
                     (FinalRun # <<>> /\ FinalRun[Len(FinalRun)].r = FAILURE)
          ELSE FinalRun = <<>>

C5_Witness ==
    /\ pc = "rbs_junit"
    /\ PrimaryRun # <<>>
    /\ PrimaryRun[1].r = FAILURE
    /\ Len(final_script) = 2
    /\ Len(FinalRun) = 2

\* C6: after the final script the result is REPEAT if the provisional
\* result was REPEAT or a final line returned REPEAT, and otherwise FAILURE
\* if a final line returned FAILURE; a REPEAT does not stop the final script.
C6_TrailerRepeatFailure ==
    pc = "rbs_junit" =>
       /\ (Provisional = REPEAT \/ Returns(FinalRun, REPEAT))
             => result = REPEAT
       /\ (Provisional # REPEAT /\ ~Returns(FinalRun, REPEAT)
             /\ Returns(FinalRun, FAILURE)) => result = FAILURE
       /\ \A k \in 1..Len(FinalRun) :
             (FinalRun[k].r = REPEAT /\ k < Len(final_script))
                => Len(FinalRun) > k

C6_Witness ==
    /\ pc = "rbs_junit"
    /\ Provisional = FAILURE
    /\ Len(FinalRun) = 2
    /\ FinalRun[1].r = REPEAT
    /\ FinalRun[2].r = FAILURE
    /\ result = REPEAT

\* C7: a final line that returns SUCCESS or SKIP leaves result unchanged;
\* if all final lines return SUCCESS or SKIP the result after the final
\* script is the provisional result.
C7_TrailerFrame ==
    /\ [](pc = "rbs_junit" =>
            ((\A k \in 1..Len(FinalRun) : FinalRun[k].r \in {SUCCESS, SKIP})
               => result = Provisional))
    /\ [][(pc = "rbs_final" /\ Len(executed') = Len(executed) + 1
             /\ executed'[Len(executed')].r \in {SUCCESS, SKIP})
            => result' = result]_vars

C7_Witness ==
    /\ pc = "rbs_junit"
    /\ Provisional = FAILURE
    /\ Len(FinalRun) = 2
    /\ FinalRun[1].r = SUCCESS
    /\ FinalRun[2].r = SKIP
    /\ result = FAILURE

\* C8: with junit requested and result SUCCESS after the final script, the
\* result becomes SUCCESS iff the report has no failures and no errors and
\* FAILURE otherwise, also on a read or parse error; otherwise the report
\* is not read and the result is unchanged.
C8_JunitOverride ==
    [][pc = "rbs_junit" =>
          IF junit /\ result = SUCCESS
             THEN /\ report' # NoReport
                  /\ result' = IF /\ report'.kind = "xml"
                                  /\ report'.failures = 0
                                  /\ report'.errors = 0
                                  THEN SUCCESS ELSE FAILURE
             ELSE /\ report' = NoReport
                  /\ result' = result]_vars

C8_Witness ==
    /\ pc = "rbs_tries"
    /\ junit
    /\ report.kind = "xml"
    /\ report.failures = 0
    /\ report.errors > 0
    /\ result = FAILURE

\* C9: when the first step of an attempt runs the build directory exists
\* and is empty, and during an attempt it holds only files of that attempt.
C9_FreshBuildDir ==
    InAttempt =>
       /\ dir_exists
       /\ \A f \in dir_files : f.call = bi /\ f.attempt = attempts
       /\ (pc = "rbs_script" /\ executed = <<>>) => dir_files = {}

C9_Witness ==
    /\ pc = "rbs_script"
    /\ executed = <<>>
    /\ attempts = 2
    /\ attempt_results = <<REPEAT>>
    /\ dir_files = {}

\* C10: run_builds calls the driver once per build, in list order, also
\* after a FAILURE, and computes the exit code after the last build.
C10_BatchContinues ==
    /\ Len(calls) <= Len(builds)
    /\ calls = SubSeq(builds, 1, Len(calls))
    /\ pc = "rb_for" => Len(calls) = bi - 1
    /\ pc = "exit" => calls = builds
    /\ exit_code # NoValue => calls = builds

C10_Witness ==
    /\ pc = "exit"
    /\ Len(builds) = 2
    /\ results[FAILURE] = <<1>>
    /\ calls = <<1, 2>>

\* C11: in every phase of a driver that runs a batch, the process exit code
\* is 1 if some build's recorded outcome is FAILURE and 0 otherwise.
C11_ExitCode ==
    pc = "main_done" =>
       process_exit = IF results[FAILURE] # <<>> THEN 1 ELSE 0

\* ---- observations on build_for_variant ----------------------------------
IsBuild(o) == "name" \in DOMAIN o

ReturnedBuilds == {outs[k] : k \in {j \in 1..Len(outs) : IsBuild(outs[j])}}

HasAxis(var, a) == \E k \in 1..Len(var) : var[k][1] = a

\* C12: no Build returned by build_for_variant has both SMP and DOMAINS
\* set, whatever the base's settings and the order of the variant's axes.
C12_SmpDomainsExclusive ==
    \A b \in ReturnedBuilds : ~(is_smp(b) /\ is_domains(b))

C12_Witness ==
    /\ variant = <<<<"domains", S("")>>, <<"smp", S("smp")>>>>
    /\ outs # <<>>
    /\ IsBuild(outs[1])
    /\ is_smp(outs[1])

\* C13: every flag set in a Build returned by build_for_variant satisfies
\* its capability predicate on the build's final platform and mode.
C13_Capabilities ==
    \A b \in ReturnedBuilds :
       /\ is_mcs(b) => can_mcs(b)
       /\ is_smp(b) => can_smp(b)
       /\ is_hyp(b) => can_hyp(b)
       /\ is_release(b) => can_release(b)
       /\ is_domains(b) => can_domains(b)

C13_Witness ==
    /\ outs # <<>>
    /\ IsBuild(outs[1])
    /\ is_smp(outs[1])
    /\ is_hyp(outs[1])
    /\ ~is_smp(base0)
    /\ ~is_hyp(base0)

\* C14: a returned Build has a mode its platform supports, the value of the
\* variant's mode axis if it has one and the base's resolved mode otherwise;
\* a variant whose mode the platform lacks yields None.
C14_Mode ==
    /\ \A b \in ReturnedBuilds :
          /\ b.mode \in get_platform(b).modes
          /\ b.mode = IF HasAxis(variant, "mode")
                         THEN var_dict_get(variant, "mode").int
                         ELSE get_mode(base0)
    /\ (/\ HasAxis(variant, "mode")
        /\ var_dict_get(variant, "mode").int \notin get_platform(base0).modes)
       => ReturnedBuilds = {}

C14_Witness ==
    /\ outs # <<>>
    /\ IsBuild(outs[1])
    /\ base0.mode = 32
    /\ HasAxis(variant, "mode")
    /\ outs[1].mode = 64

\* C15: build_for_variant leaves the base build as it was, whether it
\* returns a Build or None.
C15_BaseUnmodified ==
    /\ base = 1
    /\ heap[base] = base0

C15_Witness ==
    /\ Len(outs) = 2
    /\ IsBuild(outs[1])
    /\ outs[1].settings # base0.settings
    /\ outs[1].name # base0.name
    /\ heap[base] = base0

\* C16: two calls of build_for_variant with the same base, variant and
\* filter return the same: None both times, or Builds with equal attributes.
C16_SameOutcome ==
    \A j, k \in 1..Len(outs) : outs[j] = outs[k]

C16_Witness ==
    /\ Len(outs) = 2
    /\ IsBuild(outs[2])
    /\ is_smp(outs[2])
    /\ outs[1] = outs[2]

\* ---- observations on load_builds ----------------------------------------
RECURSIVE Combinations(_, _)
\* the product of the numbers of values of the axes from the k-th on
Combinations(d, k) ==
    IF k > Len(d) THEN 1 ELSE Len(d[k][2]) * Combinations(d, k + 1)

\* the value of axis k in selection number i, counted from 1
Selected(d, i, k) ==
    d[k][2][(((i - 1) \div Combinations(d, k + 1)) % Len(d[k][2])) + 1]

\* what build_for_variant returned for base k and variant v
Outcome(k, v) ==
    produced[CHOOSE n \in 1..Len(produced) :
                produced[n].b = k /\ produced[n].v = v].out

ModeSmp == <<<<"mode", <<I(32), I(64)>>>>, <<"smp", <<S(""), S("smp")>>>>>>

\* C17: variants(d) lists the product of the axes' sizes many selections,
\* each with one (axis, value) pair per axis in declaration order, in
\* lexicographic order with the first axis slowest, pairwise distinct;
\* the empty mapping gives the empty list.
C17_Variants ==
    lpc # "start" =>
       IF yml.variants = <<>> THEN all_variants = <<>>
       ELSE /\ Len(all_variants) = Combinations(yml.variants, 1)
            /\ \A i \in 1..Len(all_variants) :
                  /\ Len(all_variants[i]) = Len(yml.variants)
                  /\ \A k \in 1..Len(yml.variants) :
                        all_variants[i][k] =
                           <<yml.variants[k][1], Selected(yml.variants, i, k)>>
            /\ \A i, j \in 1..Len(all_variants) :
                  i # j => all_variants[i] # all_variants[j]

C17_Witness ==
    /\ lpc # "start"
    /\ yml.variants = <<<<"mode", <<I(32), I(64)>>>>, <<"app", <<S("hello")>>>>>>
    /\ all_variants = <<<<<<"mode", I(32)>>, <<"app", S("hello")>>>>,
                        <<<<"mode", I(64)>>, <<"app", S("hello")>>>>>>

\* C18: for a base on a platform with modes {32,64} and SMP at 64 only, the
\* variants of {mode:[32,64], smp:['','smp']} resolve to (32, no SMP),
\* None for (32, SMP), (64, no SMP) and (64, SMP): exactly 3 Builds.
C18_ThreeBuilds ==
    (lpc = "done" /\ yml.variants = ModeSmp) =>
       \A k \in 1..Len(base_builds) :
          (/\ get_platform(heap[k]).modes = {32, 64}
           /\ get_platform(heap[k]).smp = {64}
           /\ ~is_smp(heap[k])) =>
             /\ Cardinality({n \in 1..Len(produced) : produced[n].b = k}) = 4
             /\ IsBuild(Outcome(k, 1))
             /\ Outcome(k, 1).mode = 32
             /\ ~is_smp(Outcome(k, 1))
             /\ Outcome(k, 2) = [none |-> "None"]
             /\ IsBuild(Outcome(k, 3))
             /\ Outcome(k, 3).mode = 64
             /\ ~is_smp(Outcome(k, 3))
             /\ IsBuild(Outcome(k, 4))
             /\ Outcome(k, 4).mode = 64
             /\ is_smp(Outcome(k, 4))

C18_Witness ==
    /\ lpc = "done"
    /\ yml.variants = ModeSmp
    /\ yml.builds = <<"ZYNQMP">>
    /\ ~is_smp(heap[1])
    /\ Len(produced) = 4
    /\ Len(loaded) = 3

\* C19: no two Builds of the list load_builds returns have the same name
\* (the base builds have distinct names).
C19_UniqueNames ==
    lpc = "done" =>
       \A i, j \in 1..Len(loaded) :
          i # j => heap[loaded[i]].name # heap[loaded[j]].name

\* C20: build_for_variant returns None, and raises nothing, for an
\* unsupported mode, a failed capability, an unknown debug value, a failed
\* validation or a rejecting filter; load_builds resolves every variant of
\* every base build, in order.
C20_NoError ==
    /\ lpc # "raised"
    /\ \A n \in 1..Len(produced) :
          LET out == produced[n].out
              b == heap[base_builds[produced[n].b]]
              v == all_variants[produced[n].v]
              m == resolve_mode(v, b)
          IN  /\ "raised" \notin DOMAIN out
              /\ ~mode_supported(m, b) => out = [none |-> "None"]
              /\ (/\ HasAxis(v, "debug")
                  /\ var_dict_get(v, "debug") \notin
                        {S("debug"), S("release"), S("verification")})
                 => out = [none |-> "None"]
              /\ (/\ HasAxis(v, "smp")
                  /\ var_dict_get(v, "smp") # S("")
                  /\ mode_supported(m, b)
                  /\ m.int \notin get_platform(b).smp)
                 => out = [none |-> "None"]
              /\ IsBuild(out) => validate(out) /\ call_filter_fun(filter_fun, out)
    /\ (lpc = "done" /\ all_variants # <<>>) =>
          /\ Len(produced) = Len(base_builds) * Len(all_variants)
          /\ \A n \in 1..Len(produced) :
                /\ produced[n].b = ((n - 1) \div Len(all_variants)) + 1
                /\ produced[n].v = ((n - 1) % Len(all_variants)) + 1

C20_Witness ==
    /\ lpc = "done"
    /\ \E n, q \in 1..Len(produced) :
          /\ n < q
          /\ produced[n].b < produced[q].b
          /\ produced[n].out = [none |-> "None"]
          /\ HasAxis(all_variants[produced[n].v], "debug")
          /\ var_dict_get(all_variants[produced[n].v], "debug") = S("fast")
          /\ IsBuild(produced[q].out)


\* the filter set f has every one of its criteria satisfied by the build b
Satisfies(b, f) == \A k \in DOMAIN f : criterion(b, k, f[k])

\* the filter set f has a criterion that no build satisfies
Unsatisfiable(f) ==
    \E k \in DOMAIN f : \A b \in FilterBuilds : ~criterion(b, k, f[k])

\* C21: filtered(build, sets) returns the build when the list of filter sets
\* is empty, and otherwise returns it iff some set of the list has all its
\* criteria satisfied by the build; when every set of the list has a
\* criterion that no build satisfies, no build is returned.
C21_Filtered ==
    (filter_out # NoValue /\ f_build # NoBuild) =>
        /\ filter_out =
              IF \/ f_filters = <<>>
                 \/ \E i \in 1..Len(f_filters) :
                       Satisfies(heap[f_build], f_filters[i])
                THEN f_build
                ELSE NoBuild
        /\ (/\ f_filters # <<>>
            /\ \A i \in 1..Len(f_filters) :
                  Unsatisfiable(f_filters[i]))
              => filter_out = NoBuild

\* a list of two sets whose first set the build fails and whose second set
\* it satisfies: the build is returned
C21_Witness ==
    /\ filter_out = f_build
    /\ f_build # NoBuild
    /\ Len(f_filters) = 2
    /\ DOMAIN f_filters[1] # {}
    /\ DOMAIN f_filters[2] # {}
    /\ ~Satisfies(heap[f_build], f_filters[1])
    /\ Satisfies(heap[f_build], f_filters[2])


\* the build b matches the build-filter list of the configuration
StaticAllows(b) ==
    \/ yml.build_filter = <<>>
    \/ \E j \in 1..Len(yml.build_filter) : Satisfies(b, yml.build_filter[j])

\* the build b has, for every INPUT_<KEY> set to a non-empty value, one of
\* the comma-separated values
EnvAllows(b) ==
    \A k \in DOMAIN environ \cap EnvKeys :
       \/ environ[k] = <<"">>
       \/ criterion(b, k,
                    L([i \in 1..Len(environ[k]) |->
                          IF k = "mode" THEN I(int(strip(environ[k][i])))
                          ELSE S(strip(environ[k][i]))]))

\* the builds load_builds hands to the filters
Candidates ==
    IF all_variants = <<>>
       THEN {heap[base_builds[k]] : k \in 1..Len(base_builds)}
       ELSE {produced[n].out :
                n \in {j \in 1..Len(produced) : IsBuild(produced[j].out)}}

\* C22: every Build load_builds returns matches the build-filter list of
\* the configuration and the filter set derived from the environment, with
\* and without variants; when no INPUT_<KEY> is set to a value, every build
\* that matches the build-filter list is returned.
C22_BothFilters ==
    lpc = "done" =>
       /\ \A i \in 1..Len(loaded) :
             StaticAllows(heap[loaded[i]]) /\ EnvAllows(heap[loaded[i]])
       /\ (\A k \in DOMAIN environ : environ[k] = <<"">>) =>
             \A c \in Candidates :
                StaticAllows(c) => \E i \in 1..Len(loaded) : heap[loaded[i]] = c

\* with variants and INPUT_PLATFORM, INPUT_MODE set: a build is returned and
\* a resolved build that matches the build-filter list is held back
C22_Witness ==
    /\ lpc = "done"
    /\ all_variants # <<>>
    /\ "platform" \in DOMAIN environ
    /\ loaded # <<>>
    /\ \E c \in Candidates :
          /\ StaticAllows(c)
          /\ ~EnvAllows(c)
          /\ \A i \in 1..Len(loaded) : heap[loaded[i]] # c


\* the lines of lg from offset i on hold the signature pat, line by line
Window(pat, lg, i) ==
    /\ i + Len(pat) <= Len(lg)
    /\ \A j \in 0..(Len(pat) - 1) : contains(pat[j + 1], lg[i + j + 1])

\* C23: repeat_on_boot_failure(log) gives REPEAT iff the log is not empty
\* and some signature has, at some offset, each of its lines as a substring
\* of the log line at that place, the window lying inside the log; without
\* a log, with a shorter log or without such a window it gives SUCCESS. The
\* log of the first signature gives REPEAT, and SUCCESS when its third line
\* reads "1 tries remaining..".
C23_BootFailure ==
    boot_ret # NoValue =>
       /\ boot_ret \in {REPEAT, SUCCESS}
       /\ boot_ret = REPEAT <=>
             /\ IsList(log)
             /\ \E n \in 1..Len(boot_fail_patterns) :
                   \E i \in 0..Len(log.list) :
                      Window(boot_fail_patterns[n], log.list, i)
       /\ log = L(<< <<"[[Boot timeout]]">>, <<"None">>,
                     <<"0 tries remaining..">>, <<"">>, <<"[[Timeout]]">> >>)
             => boot_ret = REPEAT
       /\ log = L(<< <<"[[Boot timeout]]">>, <<"None">>,
                     <<"1 tries remaining..">>, <<"">>, <<"[[Timeout]]">> >>)
             => boot_ret = SUCCESS

\* the example log: exactly the lines of the first signature
C23_Witness ==
    /\ boot_ret = REPEAT
    /\ log = L(<< <<"[[Boot timeout]]">>, <<"None">>,
                  <<"0 tries remaining..">>, <<"">>, <<"[[Timeout]]">> >>)


\* the report-sanitising steps of the primary script
Sanitising == SelectSeq(script, LAMBDA l : l = sanitise_junit)

\* the caller's steps of the primary script
CallerSteps == SelectSeq(script, LAMBDA l : l # sanitise_junit)

\* C27: every attempt of a run_build_script call runs the same primary
\* script: with a test report requested it is the caller's steps followed
\* by exactly one report-sanitising step, in the second and third attempt
\* as in the first.
C27_SamePrimaryScript ==
    (InAttempt /\ junit) => script = Append(CallerSteps, sanitise_junit)


\* the copy the n-th call of build_for_variant worked on, as the call left it
Copy(n) == heap[n + 1]

\* the variant enables the flag of axis a before that of axis c
EnabledBefore(var, a, c) ==
    \E i, j \in 1..Len(var) :
       /\ i < j
       /\ var[i][1] = a /\ var[i][2] # S("")
       /\ var[j][1] = c /\ var[j][2] # S("")

\* C28: the SMP/domains exclusion is enforced when a flag is enabled, in
\* both directions, so that no intermediate state of build_for_variant has
\* both flags set, whatever the order of the smp and domains axes.
C28_Original ==
    \A n \in 1..Len(outs) : ~(is_smp(Copy(n)) /\ is_domains(Copy(n)))

\* C28, amended: set_domains is rejected when it is called on a build that
\* has SMP enabled, so DOMAINS is never added to a build with SMP; set_smp
\* on a build with domains enabled is accepted, and a build left with both
\* flags is rejected by validate: build_for_variant returns None for it.
C28_ExclusionByValidate ==
    \A n \in 1..Len(outs) :
       /\ (is_smp(Copy(n)) /\ is_domains(Copy(n))) =>
             outs[n] = [none |-> "None"]
       /\ (~is_domains(base0) /\ is_domains(Copy(n))) =>
             /\ ~is_smp(base0)
             /\ ~EnabledBefore(variant, "smp", "domains")

\* domains enabled before smp: set_smp is accepted, the copy has both flags
\* and None is returned
C28_Witness ==
    /\ variant = <<<<"domains", S("domains")>>, <<"smp", S("smp")>>>>
    /\ Len(outs) >= 1
    /\ is_smp(Copy(1)) /\ is_domains(Copy(1))
    /\ outs[1] = [none |-> "None"]


\* C29: every Build load_builds returns has passed Build.validate() and
\* satisfies the filter_fun of the caller, with variants, with an empty
\* variants section and with an axis that has no values.
C29_ValidAndAccepted ==
    lpc = "done" =>
       \A i \in 1..Len(loaded) :
          /\ validate(heap[loaded[i]])
          /\ call_filter_fun(filter_fun, heap[loaded[i]])


\* the kind of a step of a hardware run: the last word of its command
StepKind(line) ==
    IF "argv" \in DOMAIN line THEN line.argv[Len(line.argv)] ELSE line.fun

\* the order of the primary steps: unpack, lock status, acquire, run
PrimaryOrder == <<"xvzf", "-info", "-wait", "run">>

\* the run request of the job j's hardware run
RunLine(j) == hw[j].script[4]

\* C30: in every attempt of a hardware run the primary steps occur in the
\* order unpack images, print lock status, acquire lock, submit run, and the
\* run request is issued only after the lock-acquire step for the same
\* machine and job key has returned SUCCESS in that attempt.
C30_RunAfterLock ==
    \A j \in Jobs :
       /\ \A k \in 1..Len(hw[j].executed) :
             StepKind(hw[j].executed[k].line) \in
                {"xvzf", "-info", "-wait", "run"}
                => /\ k <= 4
                   /\ StepKind(hw[j].executed[k].line) = PrimaryOrder[k]
       /\ (\/ hw[j].running
           \/ \E k \in 1..Len(hw[j].executed) :
                 StepKind(hw[j].executed[k].line) = "run")
             => /\ Len(hw[j].executed) >= 3
                /\ StepKind(hw[j].executed[3].line) = "-wait"
                /\ hw[j].executed[3].r = SUCCESS
                /\ hw[j].executed[3].line.machine = RunLine(j).machine
                /\ hw[j].executed[3].line.k = RunLine(j).k
                /\ StepKind(RunLine(j)) = "run"

\* a second attempt has acquired the lock and submitted its run
C30_Witness ==
    \E j \in Jobs :
       /\ hw[j].running
       /\ hw[j].tries_left = 1
       /\ Len(hw[j].executed) = 3
       /\ hw[j].executed[3].r = SUCCESS

\* the job j is executing its hardware run step on the machine m
Running(j, m) == hw[j].running /\ RunLine(j).machine = m

identity(e) ==
    <<e.GITHUB_REPOSITORY, e.GITHUB_WORKFLOW, e.GITHUB_RUN_ID, e.GITHUB_JOB,
      Tail(input_index(e))>>

\* C26: job_key() depends only on the identity tuple: jobs with the same
\* tuple have the same key, jobs with different tuples have different keys,
\* and no release or cancel command issued by one job's cleanup carries the
\* key of a job with a different tuple.
C26_KeyOfIdentity ==
    \A j, k \in Jobs :
       /\ identity(job_env[j]) = identity(job_env[k])
             => job_key(job_env[j]) = job_key(job_env[k])
       /\ identity(job_env[j]) # identity(job_env[k])
             => /\ job_key(job_env[j]) # job_key(job_env[k])
                /\ \A n \in 1..Len(cleanup[j].issued) :
                      StepKind(cleanup[j].issued[n]) \in {"-signal", "-cancel"}
                         => cleanup[j].issued[n].k # job_key(job_env[k])

\* C25: release_mq_locks never fails the job: for every build list of the
\* --post phase it returns, main exits with 0, and for each distinct
\* non-empty requirement list cancel, release and lock status were issued
\* for its machine, whatever the commands returned.
C25_CleanupNeverFails ==
    \A j \in Jobs :
       /\ cleanup[j].pc # "raised"
       /\ cleanup[j].pc = "done" =>
             /\ cleanup[j].exit = 0
             /\ Len(cleanup[j].issued) = 3 * Len(cleanup[j].req_set)
             /\ \A n \in 1..Len(cleanup[j].req_set) :
                   /\ StepKind(cleanup[j].issued[3 * n - 2]) = "-cancel"
                   /\ StepKind(cleanup[j].issued[3 * n - 1]) = "-signal"
                   /\ StepKind(cleanup[j].issued[3 * n]) = "-info"
                   /\ \A c \in 0..2 :
                         cleanup[j].issued[3 * n - c].machine
                            = get_machine(cleanup[j].req_set[n], job_env[j])

\* the positions of the build b in the list of the outcome o
Listed(o, b) == {i \in 1..Len(results[o]) : results[o][i] = b}

\* the number of places of the build b in the three lists
Places(b) ==
    Cardinality(Listed(SUCCESS, b)) + Cardinality(Listed(SKIP, b))
    + Cardinality(Listed(FAILURE, b))

\* the position in the batch of the entry i of the list of the outcome o
BatchPosition(o, i) == CHOOSE k \in 1..Len(builds) : builds[k] = results[o][i]

\* C38: after run_builds every build of the batch appears in exactly one of
\* the succeeded, skipped and failed lists, the one given by the outcome its
\* driver returned, and in batch order within each list.
C38_Partition ==
    /\ [](/\ \A k \in 1..Len(builds) :
                Places(builds[k]) = IF k < bi THEN 1 ELSE 0
          /\ \A o \in DOMAIN results : \A i, j \in 1..Len(results[o]) :
                i < j => BatchPosition(o, i) < BatchPosition(o, j)
          /\ pc = "exit" => \A k \in 1..Len(builds) : Places(builds[k]) = 1)
    /\ [][pc = "rb_append" =>
             /\ ret \in DOMAIN results
             /\ results' = [results EXCEPT ![ret] = Append(@, builds[bi])]]_vars

\* a batch has ended with two builds in one list, in batch order
C38_Witness ==
    /\ pc = "exit"
    /\ results[SUCCESS] = <<1, 2>>
    /\ results[SKIP] = <<>>
    /\ results[FAILURE] = <<>>

\* the filter keys of the derived flags
FlagKeys == {"mcs", "smp", "hyp", "domains"}

\* whether the build b has the flag of the filter key k
Flag(b, k) ==
    CASE k = "mcs" -> is_mcs(b)
      [] k = "smp" -> is_smp(b)
      [] k = "hyp" -> is_hyp(b)
      [] k = "domains" -> is_domains(b)

\* what a criterion on the flag key k with the value v asks of the build b
FlagAsked(b, k, v) == IF v = S("") THEN ~Flag(b, k) ELSE Flag(b, k)

\* C36: for the filter keys mcs, smp, hyp and domains a criterion with the
\* empty-string marker is satisfied exactly by the builds without the flag,
\* and a criterion with any other value exactly by the builds with the flag:
\* a build returned for a single filter set meets every flag criterion of
\* the set, and a set of one flag criterion returns exactly those builds.
C36_FlagCriteria ==
    (filter_out # NoValue /\ f_build # NoBuild /\ Len(f_filters) = 1) =>
       \A k \in FlagKeys \cap DOMAIN f_filters[1] :
          /\ filter_out = f_build
                => FlagAsked(heap[f_build], k, f_filters[1][k])
          /\ (DOMAIN f_filters[1] = {k}
              /\ FlagAsked(heap[f_build], k, f_filters[1][k]))
                => filter_out = f_build

\* a build with SMP is returned for a criterion on smp whose value is not
\* the marker but the list holding it
C36_Witness ==
    /\ filter_out = f_build
    /\ f_build # NoBuild
    /\ Len(f_filters) = 1
    /\ DOMAIN f_filters[1] = {"smp"}
    /\ f_filters[1].smp = L(<<S("")>>)
    /\ is_smp(heap[f_build])

\* the keys match_dict tests on the build
RecognizedKeys ==
    {"arch", "march", "platform", "debug", "compiler", "mode", "mcs", "smp",
     "hyp", "domains", "req", "name", "app"}

\* the key k is neither recognized nor an attribute of the platform of b
Unrecognized(b, k) ==
    k \notin RecognizedKeys \cup DOMAIN get_platform(b)

\* C37: a filter set with a key that is neither a recognized filter key nor
\* an attribute of the platform descriptor matches no build, whatever the
\* other criteria of the set: when every set of the list has such a key,
\* filtered returns None.
C37_UnrecognizedKey ==
    (/\ filter_out # NoValue
     /\ f_build # NoBuild
     /\ f_filters # <<>>
     /\ \A i \in 1..Len(f_filters) :
           \E k \in DOMAIN f_filters[i] : Unrecognized(heap[f_build], k))
       => filter_out = NoBuild

\* a set with an unrecognized key and a criterion the build satisfies
C37_Witness ==
    /\ filter_out = NoBuild
    /\ f_build # NoBuild
    /\ Len(f_filters) = 1
    /\ DOMAIN f_filters[1] = {"bogus", "mode"}
    /\ criterion(heap[f_build], "mode", f_filters[1].mode)

\* the job j is past the final script of an attempt that has not been
\* followed by the next one
AttemptOver(j) ==
    \/ hw[j].pc \in {"junit", "end"}
    \/ hw[j].pc = "while" /\ hw[j].tries_left < InitialTries

\* the steps of the kind in the attempt of the job j, by position
StepsOf(j, kind) ==
    {n \in 1..Len(hw[j].executed) : StepKind(hw[j].executed[n].line) = kind}

\* the positions of the lock-acquire steps of the attempt that succeeded
Acquired(j) == {n \in StepsOf(j, "-wait") : hw[j].executed[n].r = SUCCESS}

\* the release steps after the step n for the machine and key of the step n
ReleasesAfter(j, n) ==
    {k \in StepsOf(j, "-signal") :
        /\ k > n
        /\ hw[j].executed[k].line.machine = hw[j].executed[n].line.machine
        /\ hw[j].executed[k].line.k = hw[j].executed[n].line.k}

C32_Original ==
    \A j \in Jobs : \A k \in StepsOf(j, "-signal") :
       \E n \in Acquired(j) : k \in ReleasesAfter(j, n)

\* the job j runs the script of a hardware run that has a machine
HasMachine(j) ==
    /\ hw[j].phase = "hw"
    /\ Len(hw[j].script) >= 4
    /\ StepKind(hw[j].script[3]) = "-wait"

\* C32, amended: a hardware attempt with a machine issues the release
\* command for its machine and job key in every attempt, also in one that
\* stopped before or at the acquire step; a lock changes from held to free
\* only by a successful release with the key of its holder.
C32_ReleaseAlways ==
    /\ [](\A j \in Jobs : (AttemptOver(j) /\ HasMachine(j)) =>
             \E k \in StepsOf(j, "-signal") :
                /\ hw[j].executed[k].line.machine = RunLine(j).machine
                /\ hw[j].executed[k].line.k = job_key(job_env[j]))
    /\ [][\A m \in Machines :
             (sem[m].holder # Free /\ sem'[m].holder = Free) =>
                \E j \in Jobs :
                   /\ job_key(job_env[j]) = sem[m].holder
                   /\ Len(hw'[j].executed) = Len(hw[j].executed) + 1
                   /\ StepKind(hw'[j].executed[Len(hw'[j].executed)].line)
                         = "-signal"
                   /\ hw'[j].executed[Len(hw'[j].executed)].r = SUCCESS]_vars

\* unpacking the images failed and the release command was issued
C32_Witness ==
    \E j \in Jobs :
       /\ AttemptOver(j)
       /\ hw[j].executed[1].r = FAILURE
       /\ Acquired(j) = {}
       /\ StepsOf(j, "-signal") # {}

\* the build b is excluded from hardware tests: by its flag or its platform's
Disabled(b) == b.no_hw_test \/ b.platform \in no_hw_test

\* C33: for a disabled build the hardware phase returns SKIP without running
\* any step (no lock, run or release command, no trailer step), while the
\* build phase runs its build script.
C33_DisabledSkipped ==
    \A j \in Jobs : Disabled(hw[j].build) =>
       /\ hw[j].phase = "hw" =>
             /\ hw[j].executed = <<>>
             /\ hw[j].script = <<>>
             /\ hw[j].final_script = <<>>
             /\ hw[j].pc \in {"start", "done"}
             /\ hw[j].pc = "done" => hw[j].ret = SKIP
       /\ hw[j].phase = "build" =>
             /\ hw[j].pc # "start" => hw[j].script = build_script(hw[j].build)
             /\ hw[j].pc = "done" => hw[j].ret \in {SUCCESS, FAILURE}
             /\ (hw[j].pc = "done" /\ hw[j].ret = SUCCESS)
                   => hw[j].si = Len(hw[j].script)

\* the hardware phase has skipped a build of a platform without hardware
\* tests
C33_Witness ==
    /\ hw[1].phase = "hw"
    /\ hw[1].build.platform \in no_hw_test
    /\ ~hw[1].build.no_hw_test
    /\ hw[1].pc = "done"
    /\ hw[1].ret = SKIP

\* the machine selected for the hardware run of the job j
Selected_machine(j) == get_machine(get_req(hw[j].build), job_env[j])

\* C34: a hardware run for which no machine can be selected or whose machine
\* name ends in "_pool" ends with the outcome FAILURE without any lock, run
\* or release command, and the batch continues.
C34_NoMachineFails ==
    \A j \in Jobs :
       (/\ hw[j].phase = "hw"
        /\ ~Disabled(hw[j].build)
        /\ \/ Selected_machine(j) = PyNone
           \/ Selected_machine(j) = S("skylake_pool"))
       => /\ hw[j].pc # "raised"
          /\ hw[j].pc = "done" => hw[j].ret = FAILURE
          /\ \A n \in 1..Len(hw[j].executed) :
                StepKind(hw[j].executed[n].line)
                   \notin {"-wait", "run", "-signal"}

\* the shard index of the job with the environment e
ShardIndex(e) ==
    CASE e.INPUT_INDEX = <<"$", "0">> -> 0
      [] e.INPUT_INDEX = <<"$", "1">> -> 1
      [] e.INPUT_INDEX = <<"$", "2">> -> 2

\* the tag of the requirement list at the shard index modulo its length
Tag(req, e) == req[(ShardIndex(e) % Len(req)) + 1]

\* the machines named by the lines
MachinesOf(lines) ==
    {lines[n].machine :
        n \in {i \in 1..Len(lines) : "machine" \in DOMAIN lines[i]}}

\* the machines named by the lock, run and release commands of the hardware
\* run of the build b
RunMachines(b, e) ==
    MachinesOf(hw_run(b, e).script) \cup MachinesOf(hw_run(b, e).final)

\* C35: get_machine returns no machine for an empty requirement list and
\* otherwise the tag at the shard index modulo the number of tags, a member
\* of the list; within a job the lock, run and release commands of a build
\* and the cancel and release commands of the cleanup name that one machine.
C35_SameMachine ==
    \A j \in Jobs :
       /\ get_machine(<<>>, job_env[j]) = PyNone
       /\ \A n \in 1..Len(cleanup[j].runs) :
             has_get_req(cleanup[j].runs[n]) =>
                /\ get_machine(get_req(cleanup[j].runs[n]), job_env[j])
                      = Tag(get_req(cleanup[j].runs[n]), job_env[j])
                /\ \E t \in 1..Len(get_req(cleanup[j].runs[n])) :
                      get_req(cleanup[j].runs[n])[t]
                         = get_machine(get_req(cleanup[j].runs[n]),
                                       job_env[j])
                /\ RunMachines(cleanup[j].runs[n], job_env[j])
                      = {Tag(get_req(cleanup[j].runs[n]), job_env[j])}
                /\ cleanup[j].pc = "done" =>
                      \A kind \in {"-cancel", "-signal"} :
                         \E i \in 1..Len(cleanup[j].issued) :
                            /\ StepKind(cleanup[j].issued[i]) = kind
                            /\ cleanup[j].issued[i].machine
                                  = Tag(get_req(cleanup[j].runs[n]),
                                        job_env[j])
       /\ \A i \in 1..Len(cleanup[j].issued) :
             \E n \in 1..Len(cleanup[j].runs) :
                /\ has_get_req(cleanup[j].runs[n])
                /\ cleanup[j].issued[i].machine
                      \in RunMachines(cleanup[j].runs[n], job_env[j])

\* the cleanup of the job with the shard index 1 has released the second
\* machine of the list
C35_Witness ==
    /\ cleanup[1].pc = "done"
    /\ job_env[1].INPUT_INDEX = <<"$", "1">>
    /\ \E i \in 1..Len(cleanup[1].issued) :
          /\ StepKind(cleanup[1].issued[i]) = "-signal"
          /\ cleanup[1].issued[i].machine = S("haswell")

====
